---- MODULE Spec2Model ----
(***************************************************************************)
(* The tool-calling layer of arrg: the MCP tool registry                   *)
(* (arrg/mcp/tools.py), the stdio JSON-RPC server (arrg/mcp/server.py),    *)
(* the stdio client (arrg/mcp/client.py) and the agentic tool-call loop    *)
(* of BaseAgent.call_llm (arrg/agents/base.py).                            *)
(*                                                                         *)
(* Python values are encoded as follows.  A dict key that is not there is  *)
(* Absent, None/JSON null is Null.  A dict (the registry's _tools and      *)
(* _executors) is a sequence of [key, val] records in insertion order,     *)
(* which is the order Python iterates it in.                               *)
(***************************************************************************)
EXTENDS Integers, Sequences, FiniteSets, TLC

VARIABLES
    tools,          \* MCPToolRegistry._tools      (dict name -> MCPTool)
    executors,      \* MCPToolRegistry._executors  (dict name -> callable)
    lastOp,         \* the registry operation that ran last, with what it returned
    latest,         \* history: per name, the most recent register/unregister
    initialized,    \* MCPServer._initialized
    client_info,    \* MCPServer._client_info
    handled_initialize, \* history: an initialize request was answered with its result
    running,        \* MCPServer.run is still in its loop over stdin
    lastLine,       \* the line that arrived on the server's stdin last
    lastOut,        \* the lines the server wrote to stdout for lastLine
    pc,             \* BaseAgent.call_llm: "idle", "loop" (in the for loop), "done"
    max_tool_rounds,\* call_llm's parameter
    round_num,      \* the rounds of the for loop that ran to their end
    messages,       \* call_llm's conversation, the list it passes to the LLM
    sent,           \* the messages the latest completion call was given
    completions,    \* history: the completion calls made and what each returned
    dispatched,     \* history: the MCPToolCalls handed to registry.call_tool
    llm_result,     \* what call_llm returned
    process,        \* MCPClient._process: 0 is None, else the child's number
    cli_initialized,\* MCPClient._initialized
    server_info,    \* MCPClient._server_info: <<>> is None, else <<the dict>>
    children,       \* the child processes spawned so far
    next_id,        \* the requests written so far, plus one
    cliOp,          \* the client operation that ran last, with its outcome
    pipe            \* the pipes between the client and its child, line by line

regVars == <<tools, executors, lastOp, latest>>

srvVars == <<initialized, client_info, handled_initialize, running, lastLine, lastOut>>

loopVars == <<pc, max_tool_rounds, round_num, messages, sent, completions,
              dispatched, llm_result>>

cliVars == <<process, cli_initialized, server_info, children, next_id, cliOp, pipe>>

vars == <<regVars, srvVars, loopVars, cliVars>>

Absent == "<absent>"
Null == "<null>"

(***************************************************************************)
(* Python dict, insertion ordered.                                         *)
(***************************************************************************)
DictHas(d, k) == \E i \in 1..Len(d) : d[i].key = k

DictIndex(d, k) == CHOOSE i \in 1..Len(d) : d[i].key = k

DictGet(d, k) == d[DictIndex(d, k)].val

\* d[k] = v: a key already there keeps its place, a new key goes last
DictSet(d, k, v) ==
    IF DictHas(d, k)
    THEN [d EXCEPT ![DictIndex(d, k)] = [key |-> k, val |-> v]]
    ELSE Append(d, [key |-> k, val |-> v])

\* d.pop(k, None)
DictPop(d, k) ==
    IF DictHas(d, k)
    THEN LET i == DictIndex(d, k)
         IN  [j \in 1..(Len(d) - 1) |-> IF j < i THEN d[j] ELSE d[j + 1]]
    ELSE d

\* list(d.values())
DictValues(d) == [i \in 1..Len(d) |-> d[i].val]

DictKeys(d) == {d[i].key : i \in 1..Len(d)}

(***************************************************************************)
(* Tool definitions and executors.                                         *)
(***************************************************************************)
MCPTool(name, description, input_schema) ==
    [name |-> name, description |-> description, input_schema |-> input_schema]

\* MCPTool.to_dict: the tools/list item; description only when it is not empty
MCPTool_to_dict(tool) ==
    IF tool.description # ""
    THEN [name |-> tool.name, inputSchema |-> tool.input_schema,
          description |-> tool.description]
    ELSE [name |-> tool.name, inputSchema |-> tool.input_schema]

\* The argument keys the model passes to executors.
ArgKeys == {"text", "query"}

\* A tool call's arguments: a dict over ArgKeys, or None in place of a dict.
DictArgs == [kind : {"dict"}, text : {Absent, "hi"}, query : {Absent, "q"}]

NullArgs == [kind |-> "null", text |-> Absent, query |-> Absent]

EmptyArgs == [kind |-> "dict", text |-> Absent, query |-> Absent]

KeysOf(a) == {k \in ArgKeys : a[k] # Absent}

\* The executors: the five built-in mocks, and three an application registers:
\* echo(text) returns text, shout(text) returns text + "!", boom(**kw) raises.
BuiltinExecutors ==
    {"_mock_web_search", "_mock_file_read", "_mock_file_write",
     "_mock_analyze_data", "_mock_fact_check"}

UserExecutors == {"echo", "shout", "boom"}

RequiredParams(e) ==
    CASE e = "_mock_web_search" -> {"query"}
      [] e = "_mock_file_read" -> {"file_path"}
      [] e = "_mock_file_write" -> {"file_path", "content"}
      [] e = "_mock_analyze_data" -> {"data"}
      [] e = "_mock_fact_check" -> {"claim"}
      [] e = "echo" -> {"text"}
      [] e = "shout" -> {"text"}
      [] OTHER -> {}

OptionalParams(e) ==
    CASE e = "_mock_web_search" -> {"max_results"}
      [] e = "_mock_analyze_data" -> {"analysis_type"}
      [] e = "_mock_fact_check" -> {"sources"}
      [] OTHER -> {}

\* executor(**arguments): what the call does.  Python raises TypeError when
\* arguments is no mapping, when a required parameter is missing and when a
\* keyword is unexpected; boom takes any keywords and raises RuntimeError.
Invoke(e, a) ==
    IF a.kind # "dict"
    THEN [kind |-> "TypeError", text |-> "argument after ** must be a mapping"]
    ELSE IF e = "boom"
    THEN [kind |-> "Exception", text |-> "boom"]
    ELSE IF ~(KeysOf(a) \subseteq (RequiredParams(e) \cup OptionalParams(e)))
    THEN [kind |-> "TypeError", text |-> "got an unexpected keyword argument"]
    ELSE IF ~(RequiredParams(e) \subseteq KeysOf(a))
    THEN [kind |-> "TypeError", text |-> "missing a required positional argument"]
    ELSE CASE e = "echo" -> [kind |-> "return", text |-> a.text]
           [] e = "shout" -> [kind |-> "return", text |-> a.text \o "!"]
           [] e = "_mock_web_search" ->
                [kind |-> "return",
                 text |-> "Web search results for '" \o a.query \o "'"]
           [] OTHER -> [kind |-> "return", text |-> "mock result"]

(***************************************************************************)
(* MCPToolRegistry.                                                        *)
(***************************************************************************)
TextContent(text) == [type |-> "text", text |-> text]

MCPToolCall(name, arguments, call_id) ==
    [name |-> name, arguments |-> arguments, call_id |-> call_id]

MCPToolResult(content, is_error, tool_name, call_id) ==
    [content |-> content, is_error |-> is_error, tool_name |-> tool_name,
     call_id |-> call_id]

\* A name that is a JSON array: Python cannot hash it.
ListName == "<list>"

\* register_tool: both dicts are assigned under tool.name
register_tools(ts, tool) == DictSet(ts, tool.name, tool)

register_executors_keeps_first(es, tool, executor) ==
    IF DictHas(es, tool.name) THEN es ELSE DictSet(es, tool.name, executor)

\* register_tool that stores the definition and not the executor
register_executors_not_stored(es, tool, executor) == es

register_executors(es, tool, executor) == DictSet(es, tool.name, executor)

\* unregister_tool: whether the name was there, and both dicts without it
unregister_existed(ts, name) == DictHas(ts, name)

unregister_tools_keeps_entry(ts, name) == ts

unregister_tools(ts, name) == DictPop(ts, name)

\* unregister_tool that leaves the executor in place
unregister_executors_keeps_entry(es, name) == es

unregister_executors(es, name) == DictPop(es, name)

\* list_tools: {"tools": [tool.to_dict() for tool in self._tools.values()]}
list_tools(ts) ==
    [tools |-> [i \in 1..Len(ts) |-> MCPTool_to_dict(DictValues(ts)[i])]]

\* call_tool, name not in _executors: the not-found result
tool_not_found_raises(call) ==
    [raised |-> TRUE, error |-> "KeyError: " \o call.name, invoked |-> <<>>]

tool_not_found(call) ==
    [raised |-> FALSE, invoked |-> <<>>,
     ret |-> MCPToolResult(<<TextContent("Tool '" \o call.name \o "' not found")>>,
                           TRUE, call.name, call.call_id)]

\* call_tool, the try block: the executor is invoked with the call's arguments;
\* its text is wrapped in one text block, a TypeError and any other Exception
\* become an error result
run_executor_catches_typeerror_only(executor, call) ==
    LET r == Invoke(executor, call.arguments)
    IN  CASE r.kind = "return" ->
               [raised |-> FALSE, invoked |-> <<executor>>,
                ret |-> MCPToolResult(<<TextContent(r.text)>>, FALSE,
                                      call.name, call.call_id)]
          [] r.kind = "TypeError" ->
               [raised |-> FALSE, invoked |-> <<executor>>,
                ret |-> MCPToolResult(
                          <<TextContent("Invalid arguments: " \o r.text)>>,
                          TRUE, call.name, call.call_id)]
          [] OTHER -> [raised |-> TRUE, error |-> r.text, invoked |-> <<executor>>]

run_executor(executor, call) ==
    LET r == Invoke(executor, call.arguments)
    IN  [raised |-> FALSE, invoked |-> <<executor>>,
         ret |-> CASE r.kind = "return" ->
                        MCPToolResult(<<TextContent(r.text)>>, FALSE,
                                      call.name, call.call_id)
                   [] r.kind = "TypeError" ->
                        MCPToolResult(
                           <<TextContent("Invalid arguments: " \o r.text)>>,
                           TRUE, call.name, call.call_id)
                   [] OTHER ->
                        MCPToolResult(
                           <<TextContent("Execution error: " \o r.text)>>,
                           TRUE, call.name, call.call_id)]

\* call_tool: what it returns (ret) or that it raised, and the executors it invoked.
\* An unhashable name makes the membership test itself raise, outside the try.
call_tool(es, call) ==
    IF call.name = ListName
    THEN [raised |-> TRUE, error |-> "unhashable type: 'list'", invoked |-> <<>>]
    ELSE IF ~DictHas(es, call.name)
    THEN tool_not_found(call)
    ELSE run_executor(DictGet(es, call.name), call)

\* _register_builtin_tools: the five built-ins, in the order they are registered
BuiltinTools ==
    << [tool |-> MCPTool("web_search", "Search the web", "S_web_search"),
        executor |-> "_mock_web_search"],
       [tool |-> MCPTool("file_read", "Read a file", "S_file_read"),
        executor |-> "_mock_file_read"],
       [tool |-> MCPTool("file_write", "Write a file", "S_file_write"),
        executor |-> "_mock_file_write"],
       [tool |-> MCPTool("analyze_data", "Analyze data", "S_analyze_data"),
        executor |-> "_mock_analyze_data"],
       [tool |-> MCPTool("fact_check", "Verify facts", "S_fact_check"),
        executor |-> "_mock_fact_check"] >>

RECURSIVE RegisterAllTools(_, _)
RegisterAllTools(ts, n) ==
    IF n = 0 THEN ts
    ELSE register_tools(RegisterAllTools(ts, n - 1), BuiltinTools[n].tool)

RECURSIVE RegisterAllExecutors(_, _)
RegisterAllExecutors(es, n) ==
    IF n = 0 THEN es
    ELSE register_executors(RegisterAllExecutors(es, n - 1),
                            BuiltinTools[n].tool, BuiltinTools[n].executor)

\* MCPToolRegistry.__init__: empty dicts, then the built-ins
InitTools == RegisterAllTools(<<>>, Len(BuiltinTools))

InitExecutors == RegisterAllExecutors(<<>>, Len(BuiltinTools))

BuiltinNames == {BuiltinTools[i].tool.name : i \in 1..Len(BuiltinTools)}

(***************************************************************************)
(* The names, definitions and calls the registry is exercised with.       *)
(***************************************************************************)
\* names an application registers and unregisters: a new one and a built-in
RegNames == {"echo", "web_search"}

UserTools == {MCPTool(n, d, "S_user") : n \in RegNames, d \in {"v1", "v2"}}

\* names a caller asks for; "missing" is never registered
CallNames == RegNames \cup {"missing"}

AllNames == BuiltinNames \cup CallNames

Calls == {MCPToolCall(n, a, c) :
            n \in CallNames, a \in DictArgs \cup {NullArgs}, c \in {Null, "c1"}}

NoTool == MCPTool("", "", "")

InitLatest ==
    [n \in AllNames |->
        IF n \in BuiltinNames
        THEN LET i == CHOOSE j \in 1..Len(BuiltinTools) : BuiltinTools[j].tool.name = n
             IN  [st |-> "registered", tool |-> BuiltinTools[i].tool,
                  executor |-> BuiltinTools[i].executor, replaced |-> FALSE]
        ELSE [st |-> "never", tool |-> NoTool, executor |-> "", replaced |-> FALSE]]

\* history of a registration: what was registered, and whether it replaced a
\* registration of the same name with another definition and another executor
LatestAfterRegister(l, tool, executor) ==
    [l EXCEPT ![tool.name] =
        [st |-> "registered", tool |-> tool, executor |-> executor,
         replaced |-> /\ l[tool.name].st = "registered"
                      /\ l[tool.name].tool # tool
                      /\ l[tool.name].executor # executor]]

(***************************************************************************)
(* JSON-RPC envelopes (schema.py) and the lines a server reads.            *)
(***************************************************************************)
JSONRPC_VERSION == "2.0"

PARSE_ERROR == -32700
INVALID_REQUEST == -32600
METHOD_NOT_FOUND == -32601
INVALID_PARAMS == -32602
INTERNAL_ERROR == -32603

\* JSONRPCResponse.to_dict / JSONRPCError.to_dict; to_json writes the dict as one line
JSONRPCResponse(result, id) == [jsonrpc |-> JSONRPC_VERSION, result |-> result, id |-> id]

JSONRPCError(code, message, id) ==
    [jsonrpc |-> JSONRPC_VERSION, error |-> [code |-> code, message |-> message],
     id |-> id]

IsErrorEnvelope(r) == "error" \in DOMAIN r

IsSuccessEnvelope(r) == "result" \in DOMAIN r

\* MCPToolResult.to_dict that always writes isError
MCPToolResult_to_dict_always_flagged(r) ==
    [content |-> r.content, isError |-> r.is_error]

\* MCPToolResult.to_dict: the content blocks, and isError only when it is true
MCPToolResult_to_dict(r) ==
    IF r.is_error
    THEN [content |-> r.content, isError |-> TRUE]
    ELSE [content |-> r.content]

\* MCPInitializeResult().to_dict() with capabilities tools={"listChanged": True}
InitializeResult ==
    [protocolVersion |-> "2025-11-25",
     capabilities |-> [tools |-> [listChanged |-> TRUE]],
     serverInfo |-> [name |-> "arrg-mcp-server", version |-> "0.1.0"]]

\* The "arguments" member of params: not there, null, or a dict
AbsentArgs == [kind |-> "absent", text |-> Absent, query |-> Absent]

\* The "params" member of a message: not there, null, an array, or an object
\* with the members the handlers read (name, arguments, clientInfo)
Params(kind, name, arguments, clientInfo) ==
    [kind |-> kind, name |-> name, arguments |-> arguments, clientInfo |-> clientInfo]

NonObjectParams ==
    {Params(k, Absent, AbsentArgs, Absent) : k \in {"absent", "null", "list"}}

EmptyParams == Params("dict", Absent, AbsentArgs, Absent)

CallParams ==
    {Params("dict", n, a, Absent) :
        n \in {Absent, "", ListName} \cup CallNames,
        a \in {AbsentArgs, NullArgs} \cup DictArgs}

InitializeParams == {Params("dict", Absent, AbsentArgs, c) : c \in {Null, "clientInfo"}}

MaxId == 2

\* request ids: JSON numbers, written as strings
Ids == {ToString(i) : i \in 1..MaxId}

\* the "id" member: not there, null, or an id
IdVals == {Absent, Null} \cup Ids

Methods ==
    {"initialize", "ping", "tools/list", "tools/call",
     "notifications/initialized", "notifications/cancelled", "bogus/method"}

Message(jsonrpc, method, params, id) ==
    [kind |-> "object", jsonrpc |-> jsonrpc, method |-> method, params |-> params,
     id |-> id]

\* a line that is not a JSON object: no JSON at all, JSON that is no object, blank
OtherLine(kind) ==
    [kind |-> kind, jsonrpc |-> Absent, method |-> Absent,
     params |-> Params("absent", Absent, AbsentArgs, Absent), id |-> Absent]

Lines ==
    {OtherLine(k) : k \in {"garbage", "nonobject", "blank"}}
    \cup {Message("1.0", "ping", EmptyParams, i) : i \in IdVals}
    \cup {Message(JSONRPC_VERSION, "tools/call", p, i) :
            p \in CallParams \cup NonObjectParams, i \in IdVals}
    \cup {Message(JSONRPC_VERSION, "initialize", p, i) :
            p \in InitializeParams \cup NonObjectParams \cup {EmptyParams}, i \in IdVals}
    \cup {Message(JSONRPC_VERSION, m, p, i) :
            m \in Methods \ {"tools/call", "initialize"},
            p \in NonObjectParams \cup {EmptyParams}, i \in IdVals}

\* dict.get(key): a key not there gives None
Get(v) == IF v = Absent THEN Null ELSE v

\* params = data.get("params", {}): calling .get on it works for a dict only
HasGet(params) == params.kind \in {"absent", "dict"}

(***************************************************************************)
(* MCPServer.  A handler returns whether it raised, the response it        *)
(* returns (responds is FALSE where it returns None), the fields           *)
(* _initialized and _client_info as it leaves them, and the calls it made  *)
(* to the registry.                                                        *)
(***************************************************************************)
Returned(out, init, info) ==
    [raised |-> FALSE, responds |-> TRUE, out |-> out, initialized |-> init,
     client_info |-> info, calls |-> <<>>]

ReturnedNone(init, info) ==
    [raised |-> FALSE, responds |-> FALSE, initialized |-> init, client_info |-> info,
     calls |-> <<>>]

WithCalls(r, calls) == [r EXCEPT !.calls = calls]

Raised(error, init, info) ==
    [raised |-> TRUE, error |-> error, initialized |-> init, client_info |-> info,
     calls |-> <<>>]

\* _handle_initialize: _client_info is assigned before .get is called on it
handle_initialize(params, msg_id, init, info) ==
    IF ~HasGet(params)
    THEN Raised("no attribute 'get'", init, info)
    ELSE LET ci == IF params.clientInfo = Absent THEN "{}" ELSE params.clientInfo
         IN  IF ci = Null
             THEN Raised("'NoneType' object has no attribute 'get'", init, ci)
             ELSE Returned(JSONRPCResponse(InitializeResult, msg_id), init, ci)

\* _handle_tools_list
handle_tools_list(ts, params, msg_id, init, info) ==
    IF ~HasGet(params)
    THEN Raised("no attribute 'get'", init, info)
    ELSE WithCalls(Returned(JSONRPCResponse(list_tools(ts), msg_id), init, info),
                   <<[op |-> "list_tools", ret |-> list_tools(ts)]>>)

\* _handle_tools_call, its return: the tool result, error or not, in a success response
tool_call_response_error_envelope(result, msg_id) ==
    IF result.is_error
    THEN JSONRPCError(INTERNAL_ERROR, result.content[1].text, msg_id)
    ELSE JSONRPCResponse(MCPToolResult_to_dict(result), msg_id)

tool_call_response(result, msg_id) ==
    JSONRPCResponse(MCPToolResult_to_dict(result), msg_id)

\* _handle_tools_call without the check of the name
handle_tools_call_unchecked_name(es, params, msg_id, init, info) ==
    IF ~HasGet(params)
    THEN Raised("no attribute 'get'", init, info)
    ELSE LET arguments == IF params.arguments.kind = "absent"
                          THEN EmptyArgs ELSE params.arguments
             call == MCPToolCall(params.name, arguments, Null)
             r == call_tool(es, call)
             op == <<[op |-> "call_tool", call |-> call, out |-> r]>>
         IN  IF r.raised
             THEN WithCalls(Raised(r.error, init, info), op)
             ELSE WithCalls(Returned(tool_call_response(r.ret, msg_id), init, info),
                            op)

\* _handle_tools_call
handle_tools_call(es, params, msg_id, init, info) ==
    IF ~HasGet(params)
    THEN Raised("no attribute 'get'", init, info)
    ELSE IF params.name \in {Absent, ""}
    THEN Returned(JSONRPCError(INVALID_PARAMS, "Missing required parameter: name",
                               msg_id), init, info)
    ELSE LET arguments == IF params.arguments.kind = "absent"
                          THEN EmptyArgs ELSE params.arguments
             call == MCPToolCall(params.name, arguments, Null)
             r == call_tool(es, call)
             op == <<[op |-> "call_tool", call |-> call, out |-> r]>>
         IN  IF r.raised
             THEN WithCalls(Raised(r.error, init, info), op)
             ELSE WithCalls(Returned(tool_call_response(r.ret, msg_id), init, info),
                            op)

\* _handle_request whose dispatch serves the tools only after the handshake
dispatch_request_after_handshake(ts, es, method, params, msg_id, init, info) ==
    CASE method = "initialize" -> handle_initialize(params, msg_id, init, info)
      [] method = "ping" -> Returned(JSONRPCResponse("{}", msg_id), init, info)
      [] method \in {"tools/list", "tools/call"} /\ ~init ->
            Returned(JSONRPCError(INVALID_REQUEST, "Server not initialized", msg_id),
                     init, info)
      [] method = "tools/list" -> handle_tools_list(ts, params, msg_id, init, info)
      [] method = "tools/call" -> handle_tools_call(es, params, msg_id, init, info)
      [] OTHER -> Returned(JSONRPCError(METHOD_NOT_FOUND,
                                        "Method not found: " \o method, msg_id),
                           init, info)

\* _handle_request: the dispatch, and the except that answers INTERNAL_ERROR
dispatch_request(ts, es, method, params, msg_id, init, info) ==
    CASE method = "initialize" -> handle_initialize(params, msg_id, init, info)
      [] method = "ping" -> Returned(JSONRPCResponse("{}", msg_id), init, info)
      [] method = "tools/list" -> handle_tools_list(ts, params, msg_id, init, info)
      [] method = "tools/call" -> handle_tools_call(es, params, msg_id, init, info)
      [] OTHER -> Returned(JSONRPCError(METHOD_NOT_FOUND,
                                        "Method not found: " \o method, msg_id),
                           init, info)

\* _handle_request without its except
handle_request_uncaught(ts, es, method, params, msg_id, init, info) ==
    dispatch_request(ts, es, method, params, msg_id, init, info)

handle_request(ts, es, method, params, msg_id, init, info) ==
    LET r == dispatch_request(ts, es, method, params, msg_id, init, info)
    IN  IF r.raised
        THEN WithCalls(Returned(JSONRPCError(INTERNAL_ERROR,
                                             "Internal error: " \o r.error, msg_id),
                                r.initialized, r.client_info), r.calls)
        ELSE r

\* _handle_notification that answers what it is sent
handle_notification_answering(method, params, init, info) ==
    Returned(JSONRPCResponse([unread |-> Null], Null), init, info)

\* _handle_notification: nothing is returned; nothing catches what it raises
handle_notification(method, params, init, info) ==
    CASE method = "notifications/initialized" -> ReturnedNone(TRUE, info)
      [] method = "notifications/cancelled" ->
            IF HasGet(params)
            THEN ReturnedNone(init, info)
            ELSE Raised("no attribute 'get'", init, info)
      [] OTHER -> ReturnedNone(init, info)

\* handle_message
handle_message(ts, es, raw, init, info) ==
    IF raw.kind = "garbage"
    THEN Returned(JSONRPCError(PARSE_ERROR, "Parse error", Null), init, info)
    ELSE IF raw.kind # "object"
    THEN Returned(JSONRPCError(INVALID_REQUEST,
                               "Invalid request: expected JSON object", Null),
                  init, info)
    ELSE IF raw.jsonrpc # JSONRPC_VERSION
    THEN Returned(JSONRPCError(INVALID_REQUEST,
                               "Invalid JSON-RPC version: " \o raw.jsonrpc,
                               Get(raw.id)), init, info)
    ELSE IF Get(raw.id) = Null
    THEN handle_notification(raw.method, raw.params, init, info)
    ELSE handle_request(ts, es, raw.method, raw.params, raw.id, init, info)

\* MCPToolRegistry.handle_jsonrpc: the registry's own dispatch of a
\* JSONRPCRequest; nothing in it catches
handle_jsonrpc(ts, es, request) ==
    LET params == IF request.params.kind = "null"
                  THEN EmptyParams ELSE request.params
    IN  CASE request.method = "tools/list" ->
               IF ~HasGet(params)
               THEN [raised |-> TRUE, error |-> "no attribute 'get'"]
               ELSE [raised |-> FALSE,
                     out |-> JSONRPCResponse(list_tools(ts), request.id)]
          [] request.method = "tools/call" ->
               IF ~HasGet(params)
               THEN [raised |-> TRUE, error |-> "no attribute 'get'"]
               ELSE IF params.name \in {Absent, ""}
               THEN [raised |-> FALSE,
                     out |-> JSONRPCError(INVALID_PARAMS,
                                          "Missing required parameter: name",
                                          request.id)]
               ELSE LET arguments == IF params.arguments.kind = "absent"
                                     THEN EmptyArgs ELSE params.arguments
                        r == call_tool(es, MCPToolCall(params.name, arguments, Null))
                    IN  IF r.raised
                        THEN [raised |-> TRUE, error |-> r.error]
                        ELSE [raised |-> FALSE,
                              out |-> JSONRPCResponse(MCPToolResult_to_dict(r.ret),
                                                      request.id)]
          [] OTHER ->
               [raised |-> FALSE,
                out |-> JSONRPCError(METHOD_NOT_FOUND,
                                     "Method not found: " \o request.method,
                                     request.id)]

\* MCPServer.__init__
ServerIdle ==
    /\ initialized = FALSE
    /\ client_info = Null
    /\ handled_initialize = FALSE
    /\ running = TRUE
    /\ lastLine = OtherLine("blank")
    /\ lastOut = <<>>

\* call_llm has not been called
LoopIdle ==
    /\ pc = "idle"
    /\ max_tool_rounds = 0
    /\ round_num = 0
    /\ messages = <<>>
    /\ sent = <<>>
    /\ completions = <<>>
    /\ dispatched = <<>>
    /\ llm_result = Absent

\* MCPClient.__init__
ClientIdle ==
    /\ process = 0
    /\ cli_initialized = FALSE
    /\ server_info = <<>>
    /\ children = <<>>
    /\ next_id = 1
    /\ cliOp = [op |-> "__init__"]
    /\ pipe = [phase |-> "closed", awaiting |-> Absent, stdin |-> <<>>,
               stdout |-> <<>>, written |-> <<>>, consumed |-> <<>>]

(***************************************************************************)
(* The registry under any sequence of its operations.                      *)
(***************************************************************************)
RegistryInit ==
    /\ tools = InitTools
    /\ executors = InitExecutors
    /\ lastOp = [op |-> "__init__"]
    /\ latest = InitLatest
    /\ ServerIdle
    /\ LoopIdle
    /\ ClientIdle

RegisterTool(tool, executor) ==
    /\ tools' = register_tools(tools, tool)
    /\ executors' = register_executors(executors, tool, executor)
    /\ lastOp' = [op |-> "register_tool", name |-> tool.name]
    /\ latest' = LatestAfterRegister(latest, tool, executor)
    /\ UNCHANGED <<srvVars, loopVars, cliVars>>

UnregisterTool(name) ==
    /\ tools' = unregister_tools(tools, name)
    /\ executors' = unregister_executors(executors, name)
    /\ lastOp' = [op |-> "unregister_tool", name |-> name,
                  ret |-> unregister_existed(tools, name)]
    /\ latest' = [latest EXCEPT ![name] =
                    [st |-> "unregistered", tool |-> NoTool, executor |-> "",
                     replaced |-> FALSE]]
    /\ UNCHANGED <<srvVars, loopVars, cliVars>>

ListTools ==
    /\ lastOp' = [op |-> "list_tools", ret |-> list_tools(tools)]
    /\ UNCHANGED <<tools, executors, latest, srvVars, loopVars, cliVars>>

CallTool(call) ==
    /\ lastOp' = [op |-> "call_tool", call |-> call,
                  out |-> call_tool(executors, call)]
    /\ UNCHANGED <<tools, executors, latest, srvVars, loopVars, cliVars>>

RegistryNext ==
    \/ \E t \in UserTools, e \in UserExecutors : RegisterTool(t, e)
    \/ \E n \in CallNames : UnregisterTool(n)
    \/ ListTools
    \/ \E c \in Calls : CallTool(c)

SpecRegistry == RegistryInit /\ [][RegistryNext]_vars

(***************************************************************************)
(* The server over a registry, reading any sequence of lines.              *)
(***************************************************************************)
\* The registries a server is constructed over: the built-ins alone, and with
\* a tool "echo" registered whose executor is echo or boom.
EchoTool == MCPTool("echo", "v1", "S_user")

ServerRegistries ==
    {[tools |-> InitTools, executors |-> InitExecutors, latest |-> InitLatest]}
    \cup {[tools |-> register_tools(InitTools, EchoTool),
           executors |-> register_executors(InitExecutors, EchoTool, e),
           latest |-> LatestAfterRegister(InitLatest, EchoTool, e)] :
            e \in {"echo", "boom"}}

ServerInit ==
    /\ \E r \in ServerRegistries :
          /\ tools = r.tools
          /\ executors = r.executors
          /\ latest = r.latest
    /\ lastOp = [op |-> "none"]
    /\ ServerIdle
    /\ LoopIdle
    /\ ClientIdle

\* handle_message answered the initialize request in line with its result
InitializeAnswered(line, r) ==
    /\ line.kind = "object"
    /\ line.jsonrpc = JSONRPC_VERSION
    /\ line.method = "initialize"
    /\ Get(line.id) # Null
    /\ ~r.raised
    /\ r.responds
    /\ IsSuccessEnvelope(r.out)

\* One turn of the loop of MCPServer.run: a blank line is skipped, any other
\* line goes to handle_message and what it returns is written as one line.
\* An exception out of handle_message ends run.
ServerRun(line) ==
    /\ running
    /\ lastLine' = line
    /\ \E r \in {IF line.kind = "blank"
                 THEN ReturnedNone(initialized, client_info)
                 ELSE handle_message(tools, executors, line, initialized,
                                     client_info)} :
           /\ initialized' = r.initialized
           /\ client_info' = r.client_info
           /\ handled_initialize' = (handled_initialize \/ InitializeAnswered(line, r))
           /\ running' = ~r.raised
           /\ lastOut' = IF ~r.raised /\ r.responds THEN <<r.out>> ELSE <<>>
           /\ lastOp' = IF Len(r.calls) = 0 THEN [op |-> "none"] ELSE r.calls[1]
    /\ UNCHANGED <<tools, executors, latest, loopVars, cliVars>>

\* A line on the stdin of a server whose run has ended: nothing reads it.
StdinUnread(line) ==
    /\ ~running
    /\ lastLine' = line
    /\ lastOut' = <<>>
    /\ lastOp' = [op |-> "none"]
    /\ UNCHANGED <<initialized, client_info, handled_initialize, running, tools, executors, latest,
                   loopVars, cliVars>>

\* The message that was read last, handed as a JSONRPCRequest to the
\* registry's own dispatch, in process.
HandleJsonrpc ==
    /\ lastLine.kind = "object"
    /\ lastLine.id \in Ids
    /\ lastOp' = [op |-> "handle_jsonrpc", request |-> lastLine,
                  out |-> handle_jsonrpc(tools, executors, lastLine)]
    /\ UNCHANGED <<tools, executors, latest, srvVars, loopVars, cliVars>>

ServerNext ==
    \/ \E line \in Lines : ServerRun(line)
    \/ \E line \in Lines : StdinUnread(line)
    \/ HandleJsonrpc

SpecServer == ServerInit /\ [][ServerNext]_vars

(***************************************************************************)
(* Properties of the server (SpecServer).                                  *)
(***************************************************************************)
\* a JSON object that carries an id
IsRequest(line) == line.kind = "object" /\ line.id \in Ids

\* a well-formed message without an id (a null id counts as none)
IsNotification(line) ==
    /\ line.kind = "object"
    /\ line.jsonrpc = JSONRPC_VERSION
    /\ line.id \in {Absent, Null}

\* C1: of every sequence of lines on the server's stdin, each request gets
\* exactly one response line, with the request's id, and each notification
\* gets no output.
C1_EveryRequestAnsweredOnce ==
    /\ IsRequest(lastLine) =>
          /\ Len(lastOut) = 1
          /\ lastOut[1].id = lastLine.id
    /\ IsNotification(lastLine) => lastOut = <<>>

\* a tools/call request whose params name a tool: the name is a non-empty string
NamesTool(line) ==
    /\ line.kind = "object"
    /\ line.jsonrpc = JSONRPC_VERSION
    /\ line.method = "tools/call"
    /\ line.id \in Ids
    /\ line.params.kind = "dict"
    /\ line.params.name \in CallNames

\* the named tool is not registered, or its executor raises on the arguments
ToolFails(es, params) ==
    \/ ~DictHas(es, params.name)
    \/ Invoke(DictGet(es, params.name),
              IF params.arguments.kind = "absent" THEN EmptyArgs
              ELSE params.arguments).kind # "return"

\* a success response with the request's id whose result is a tool result,
\* with isError true where the tool failed
IsToolResultResponse(r, line, es) ==
    /\ IsSuccessEnvelope(r)
    /\ ~IsErrorEnvelope(r)
    /\ r.id = line.id
    /\ "content" \in DOMAIN r.result
    /\ Len(r.result.content) >= 1
    /\ ToolFails(es, line.params) =>
          /\ "isError" \in DOMAIN r.result
          /\ r.result.isError = TRUE

\* C2: a tools/call request that names a tool is answered, by the server and
\* by the registry's own dispatch, with a success response carrying a tool
\* result, never with an error envelope; isError is true when the tool is
\* missing or its execution failed.
C2_ToolCallNeverRpcError ==
    NamesTool(lastLine) =>
        /\ running =>
              /\ Len(lastOut) = 1
              /\ IsToolResultResponse(lastOut[1], lastLine, executors)
        /\ lastOp.op = "handle_jsonrpc" =>
              /\ ~lastOp.out.raised
              /\ IsToolResultResponse(lastOp.out.out, lastLine, executors)

\* a call of a registered tool whose executor raised, answered with isError
C2_Witness ==
    /\ NamesTool(lastLine)
    /\ running
    /\ DictHas(executors, lastLine.params.name)
    /\ DictGet(executors, lastLine.params.name) = "boom"
    /\ Len(lastOut) = 1
    /\ IsSuccessEnvelope(lastOut[1])
    /\ "isError" \in DOMAIN lastOut[1].result

(***************************************************************************)
(* Properties of the registry (SpecRegistry).                              *)
(***************************************************************************)
\* one text block that says something
IsDiagnostic(content) ==
    /\ Len(content) = 1
    /\ content[1].type = "text"
    /\ content[1].text # ""

\* C3: in every registry state, call_tool on a name that is not in the
\* catalog returns an error result with a diagnostic text block, does not
\* raise, and leaves the catalog as it was.
C3_UnknownToolIsErrorResult ==
    [][(lastOp'.op = "call_tool" /\ ~DictHas(tools, lastOp'.call.name)) =>
          /\ ~lastOp'.out.raised
          /\ lastOp'.out.ret.is_error = TRUE
          /\ IsDiagnostic(lastOp'.out.ret.content)
          /\ tools' = tools
          /\ executors' = executors]_vars

\* web_search, a built-in, was unregistered and is then called
C3_Witness ==
    /\ lastOp.op = "call_tool"
    /\ lastOp.call.name = "web_search"
    /\ ~DictHas(tools, "web_search")
    /\ ~lastOp.out.raised
    /\ lastOp.out.ret.is_error

\* the last operation called a registered tool and its executor raised
ExecutorRaised ==
    /\ lastOp.op = "call_tool"
    /\ DictHas(executors, lastOp.call.name)
    /\ Invoke(DictGet(executors, lastOp.call.name), lastOp.call.arguments).kind
          # "return"

\* C4: when the executor of a registered tool raises, call_tool returns an
\* error result whose single text block embeds the exception's message, and
\* the exception does not leave the registry.
C4_ExecutorErrorIsData ==
    ExecutorRaised =>
        LET e == Invoke(DictGet(executors, lastOp.call.name), lastOp.call.arguments)
        IN  /\ ~lastOp.out.raised
            /\ lastOp.out.ret.is_error = TRUE
            /\ IsDiagnostic(lastOp.out.ret.content)
            /\ \E prefix \in {"Invalid arguments: ", "Execution error: "} :
                  lastOp.out.ret.content[1].text = prefix \o e.text

\* an executor that raised something other than TypeError
C4_Witness ==
    /\ ExecutorRaised
    /\ Invoke(DictGet(executors, lastOp.call.name), lastOp.call.arguments).kind
          = "Exception"
    /\ ~lastOp.out.raised
    /\ lastOp.out.ret.content[1].text = "Execution error: boom"

\* the entries of a dict under one key
EntriesOf(d, k) == {i \in 1..Len(d) : d[i].key = k}

\* C5: after a name was registered twice, with different definitions and
\* executors, the catalog holds one entry for it, the second definition, and
\* call_tool on it invokes the second executor and no other.
C5_LastWriteWins ==
    \A n \in AllNames :
        (latest[n].st = "registered" /\ latest[n].replaced) =>
            /\ Cardinality(EntriesOf(tools, n)) = 1
            /\ Cardinality({i \in 1..Len(list_tools(tools).tools) :
                               list_tools(tools).tools[i].name = n}) = 1
            /\ DictGet(tools, n) = latest[n].tool
            /\ (lastOp.op = "call_tool" /\ lastOp.call.name = n) =>
                  lastOp.out.invoked = <<latest[n].executor>>

\* echo was registered twice and then called: the second executor ran
C5_Witness ==
    /\ latest["echo"].st = "registered"
    /\ latest["echo"].replaced
    /\ lastOp.op = "call_tool"
    /\ lastOp.call.name = "echo"
    /\ lastOp.out.invoked = <<latest["echo"].executor>>

\* the names list_tools returns, in order
ListedNames == [i \in 1..Len(list_tools(tools).tools) |-> list_tools(tools).tools[i].name]

\* C6: the names list_tools returns are the names whose most recent operation
\* was a registration, the built-ins of the constructor included, each once.
C6_ListIsLive ==
    /\ {ListedNames[i] : i \in 1..Len(ListedNames)}
          = {n \in AllNames : latest[n].st = "registered"}
    /\ \A i, j \in 1..Len(ListedNames) : ListedNames[i] = ListedNames[j] => i = j
    /\ lastOp.op = "list_tools" => lastOp.ret = list_tools(tools)

\* a built-in was unregistered, echo registered, and the tools then listed
C6_Witness ==
    /\ lastOp.op = "list_tools"
    /\ latest["web_search"].st = "unregistered"
    /\ latest["echo"].st = "registered"
    /\ \E i \in 1..Len(lastOp.ret.tools) : lastOp.ret.tools[i].name = "echo"
    /\ \A i \in 1..Len(lastOp.ret.tools) : lastOp.ret.tools[i].name # "web_search"

(***************************************************************************)
(* The agentic loop of BaseAgent.call_llm (agents/base.py), over the       *)
(* agent's registry and a completion service that answers as it likes.     *)
(***************************************************************************)
\* MCPTool.to_llm_format and the list get_tools_for_llm hands to the LLM
MCPTool_to_llm_format(tool) ==
    [type |-> "function",
     function |-> [name |-> tool.name, description |-> tool.description,
                   parameters |-> tool.input_schema]]

get_tools_for_llm(ts) ==
    [i \in 1..Len(ts) |-> MCPTool_to_llm_format(DictValues(ts)[i])]

\* json.loads on the texts the model gives as a tool call's arguments
json_loads(raw) ==
    CASE raw = "{}" -> [ok |-> TRUE, value |-> EmptyArgs]
      [] raw = "{\"query\": \"q\"}" ->
            [ok |-> TRUE,
             value |-> [kind |-> "dict", text |-> Absent, query |-> "q"]]
      [] raw = "{\"text\": \"hi\"}" ->
            [ok |-> TRUE,
             value |-> [kind |-> "dict", text |-> "hi", query |-> Absent]]
      [] raw = "null" -> [ok |-> TRUE, value |-> NullArgs]
      [] OTHER -> [ok |-> FALSE, value |-> EmptyArgs]

\* function.arguments of a tool call: not there, a JSON text, or a dict
NoArguments == [kind |-> "absent", raw |-> "", value |-> EmptyArgs]

StrArguments(raw) == [kind |-> "str", raw |-> raw, value |-> EmptyArgs]

ObjArguments(value) == [kind |-> "dict", raw |-> "", value |-> value]

\* One entry of response["tool_calls"].  kind is "dict" unless the entry is
\* no dict; function is "dict", "absent" (no such key) or "null".
ToolCallRequest(id, function, name, arguments) ==
    [kind |-> "dict", id |-> id, function |-> function, name |-> name,
     arguments |-> arguments]

\* What a completion call does: it returns {"content", "tool_calls"} or raises.
\* tc_kind "null" is tool_calls None.
TextResponse(content) ==
    [kind |-> "returns", content |-> content, tc_kind |-> "null",
     tool_calls |-> <<>>, error |-> ""]

ToolResponse(content, tool_calls) ==
    [kind |-> "returns", content |-> content, tc_kind |-> "list",
     tool_calls |-> tool_calls, error |-> ""]

RaisingResponse(error) ==
    [kind |-> "raises", content |-> "", tc_kind |-> "null",
     tool_calls |-> <<>>, error |-> error]

\* messages = [system?, user]
initial_messages(system_prompt, prompt) ==
    (IF system_prompt \in {Null, ""}
     THEN <<>>
     ELSE <<[role |-> "system", content |-> system_prompt]>>)
    \o <<[role |-> "user", content |-> prompt]>>

\* for round_num in range(max_tool_rounds): there is a next round
range_has_next_inclusive(rn, budget) == rn <= budget

\* a loop that never runs out of rounds
range_has_next_unbounded(rn, budget) == TRUE

range_has_next(rn, budget) == rn < budget

\* not response.get("tool_calls"): None and the empty list both end the loop
wants_tools(response) ==
    response.tc_kind = "list" /\ Len(response.tool_calls) > 0

\* the text returned when the response has no tool calls
final_text_is_placeholder(response) == "(no answer)"

final_text(response) == response.content

\* the assistant message of a round; content only when it is not empty
assistant_message(response) ==
    IF response.content # ""
    THEN [role |-> "assistant", tool_calls |-> response.tool_calls,
          content |-> response.content]
    ELSE [role |-> "assistant", tool_calls |-> response.tool_calls]

\* MCPToolResult.get_text: the text blocks joined by newlines
RECURSIVE get_text_upto(_, _)
get_text_upto(content, n) ==
    IF n = 0 THEN ""
    ELSE IF n = 1 THEN content[1].text
    ELSE get_text_upto(content, n - 1) \o "\n" \o content[n].text

get_text(r) == get_text_upto(r.content, Len(r.content))

\* MCPToolResult.to_llm_tool_result that writes an error like any other text
to_llm_tool_result_unmarked(r) ==
    [role |-> "tool",
     tool_call_id |-> IF r.call_id \in {Null, ""} THEN "unknown" ELSE r.call_id,
     content |-> get_text(r)]

\* MCPToolResult.to_llm_tool_result
to_llm_tool_result(r) ==
    [role |-> "tool",
     tool_call_id |-> IF r.call_id \in {Null, ""} THEN "unknown" ELSE r.call_id,
     content |-> IF r.is_error THEN "Error: " \o get_text(r) ELSE get_text(r)]

\* tc.get("id", f"call_{round_num}")
tool_call_id(tc, rn) == IF tc.id = Absent THEN "call_" \o ToString(rn) ELSE tc.id

\* func.get("name", "unknown")
tool_call_name(tc) ==
    IF tc.function = "absent" \/ tc.name = Absent THEN "unknown" ELSE tc.name

\* the arguments of the call: a JSON text is parsed, {} when it does not parse
tool_call_arguments(tc) ==
    LET raw_args == IF tc.function = "absent" \/ tc.arguments.kind = "absent"
                    THEN StrArguments("{}")
                    ELSE tc.arguments
    IN  IF raw_args.kind = "str"
        THEN IF json_loads(raw_args.raw).ok
             THEN json_loads(raw_args.raw).value
             ELSE EmptyArgs
        ELSE raw_args.value

\* The body of "for tc in tool_calls" for one tc: the call that went to the
\* registry (calls) and the tool message appended (msgs), or what was raised.
execute_tool_call(es, tc, rn) ==
    IF tc.kind # "dict"
    THEN [raised |-> TRUE, error |-> "'str' object has no attribute 'get'",
          calls |-> <<>>, msgs |-> <<>>]
    ELSE IF tc.function = "null"
    THEN [raised |-> TRUE, error |-> "'NoneType' object has no attribute 'get'",
          calls |-> <<>>, msgs |-> <<>>]
    ELSE LET mcp_call == MCPToolCall(tool_call_name(tc), tool_call_arguments(tc),
                                     tool_call_id(tc, rn))
             mcp_result == call_tool(es, mcp_call)
         IN  IF mcp_result.raised
             THEN [raised |-> TRUE, error |-> mcp_result.error,
                   calls |-> <<mcp_call>>, msgs |-> <<>>]
             ELSE [raised |-> FALSE, error |-> "", calls |-> <<mcp_call>>,
                   msgs |-> <<to_llm_tool_result(mcp_result.ret)>>]

\* "for tc in tool_calls" that keeps the tool message of the last entry only
dispatch_tool_calls_keeps_last(es, tool_calls, rn, n) ==
    IF n = 0
    THEN [raised |-> FALSE, error |-> "", calls |-> <<>>, msgs |-> <<>>]
    ELSE execute_tool_call(es, tool_calls[n], rn)

\* "for tc in tool_calls", the first n entries in list order; an exception
\* ends it
RECURSIVE dispatch_tool_calls(_, _, _, _)
dispatch_tool_calls(es, tool_calls, rn, n) ==
    IF n = 0
    THEN [raised |-> FALSE, error |-> "", calls |-> <<>>, msgs |-> <<>>]
    ELSE LET before == dispatch_tool_calls(es, tool_calls, rn, n - 1)
             this == execute_tool_call(es, tool_calls[n], rn)
         IN  IF before.raised
             THEN before
             ELSE [raised |-> this.raised, error |-> this.error,
                   calls |-> before.calls \o this.calls,
                   msgs |-> before.msgs \o this.msgs]

\* an except that returns the message as it is
error_text_bare(error) == error

\* except Exception as e: return f"[Error: {str(e)}]"
error_text(error) == "[Error: " \o error \o "]"

\* The tool calls a response may carry.  The first five are dispatched: a
\* built-in with its argument, the application's tool, an unknown tool with
\* an empty id and arguments that are no JSON, an entry with no id and no
\* function, and a built-in without its argument under an id of None.  The
\* last three make the loop raise: a null function, a name that is a list, an
\* entry that is a string.
SearchCall ==
    ToolCallRequest("c1", "dict", "web_search", StrArguments("{\"query\": \"q\"}"))

EchoCall ==
    ToolCallRequest("c2", "dict", "echo", StrArguments("{\"text\": \"hi\"}"))

MissingCall == ToolCallRequest("", "dict", "missing", StrArguments("not json"))

BareCall == ToolCallRequest(Absent, "absent", Absent, NoArguments)

NullIdCall == ToolCallRequest(Null, "dict", "web_search", ObjArguments(EmptyArgs))

NullFunctionCall == ToolCallRequest("c6", "null", Absent, NoArguments)

ListNameCall == ToolCallRequest("c7", "dict", ListName, StrArguments("{}"))

StringCall ==
    [kind |-> "str", id |-> Absent, function |-> "absent", name |-> Absent,
     arguments |-> NoArguments]

\* The responses of the completion service in a round with tools.
ToolResponses ==
    {ToolResponse("thinking", <<SearchCall>>),
     ToolResponse("", <<EchoCall>>),
     ToolResponse("", <<SearchCall, EchoCall>>),
     ToolResponse("", <<MissingCall, BareCall>>),
     ToolResponse("", <<NullIdCall>>)}

MalformedResponses ==
    {ToolResponse("", <<SearchCall, NullFunctionCall>>),
     ToolResponse("", <<ListNameCall>>),
     ToolResponse("", <<StringCall>>)}

TextResponses == {TextResponse("done"), ToolResponse("", <<>>)}

Responses ==
    ToolResponses \cup MalformedResponses \cup TextResponses
        \cup {RaisingResponse("rate limit exceeded")}

\* The responses to the call made without tools: text, text along with tool
\* calls all the same, an exception.
FinalResponses ==
    {TextResponse("done"), ToolResponse("final", <<SearchCall>>),
     RaisingResponse("rate limit exceeded")}

MaxRounds == 5

Budgets == 0..MaxRounds

SystemPrompts == {Null, "", "sys"}

\* The registries an agent holds: the built-ins and a tool "echo" of the
\* application, whose executor returns its text or raises.
LoopRegistries ==
    {r \in ServerRegistries : DictHas(r.executors, "echo")}

\* one completion call in the history
Completion(enabled, ts, response) ==
    [enabled |-> enabled,
     tools |-> IF enabled THEN get_tools_for_llm(ts) ELSE <<>>,
     response |-> response]

LoopInit ==
    /\ \E r \in LoopRegistries :
          /\ tools = r.tools
          /\ executors = r.executors
          /\ latest = r.latest
    /\ lastOp = [op |-> "none"]
    /\ ServerIdle
    /\ LoopIdle
    /\ ClientIdle

\* call_llm(prompt, system_prompt, use_tools=True, max_tool_rounds=budget), up
\* to the for loop: the tool schemas are fetched and the conversation is built
CallLLM(system_prompt, budget) ==
    /\ pc = "idle"
    /\ pc' = "loop"
    /\ max_tool_rounds' = budget
    /\ round_num' = 0
    /\ messages' = initial_messages(system_prompt, "p")
    /\ UNCHANGED <<sent, completions, dispatched, llm_result, regVars, srvVars,
                   cliVars>>

\* call_llm(prompt, system_prompt, use_tools=False): one client.call and its
\* text, or the error text when it raises
CallLLMNoTools(response) ==
    /\ pc = "idle"
    /\ pc' = "done"
    /\ completions' = Append(completions, Completion(FALSE, tools, response))
    /\ llm_result' = IF response.kind = "raises"
                     THEN error_text(response.error)
                     ELSE response.content
    /\ UNCHANGED <<max_tool_rounds, round_num, messages, sent, dispatched,
                   regVars, srvVars, cliVars>>

\* One pass of the for loop: the completion call with the tools and the whole
\* conversation, then either the text is returned or the assistant message is
\* appended and each tool call goes to the registry, its tool message appended.
ToolRound(response) ==
    /\ pc = "loop"
    /\ range_has_next(round_num, max_tool_rounds)
    /\ sent' = messages
    /\ completions' = Append(completions, Completion(TRUE, tools, response))
    /\ IF response.kind = "raises"
       THEN /\ pc' = "done"
            /\ llm_result' = error_text(response.error)
            /\ UNCHANGED <<messages, dispatched, round_num>>
       ELSE IF ~wants_tools(response)
       THEN /\ pc' = "done"
            /\ llm_result' = final_text(response)
            /\ UNCHANGED <<messages, dispatched, round_num>>
       ELSE LET d == dispatch_tool_calls(executors, response.tool_calls,
                                         round_num, Len(response.tool_calls))
            IN  /\ messages' = (messages \o <<assistant_message(response)>>) \o d.msgs
                /\ dispatched' = dispatched \o d.calls
                /\ IF d.raised
                   THEN /\ pc' = "done"
                        /\ llm_result' = error_text(d.error)
                        /\ UNCHANGED round_num
                   ELSE /\ round_num' = round_num + 1
                        /\ UNCHANGED <<pc, llm_result>>
    /\ UNCHANGED <<max_tool_rounds, regVars, srvVars, cliVars>>

\* After the for loop ran out: one completion call with tools=None, whose
\* content is returned
FinalCall(response) ==
    /\ pc = "loop"
    /\ ~range_has_next(round_num, max_tool_rounds)
    /\ pc' = "done"
    /\ sent' = messages
    /\ completions' = Append(completions, Completion(FALSE, tools, response))
    /\ llm_result' = IF response.kind = "raises"
                     THEN error_text(response.error)
                     ELSE response.content
    /\ UNCHANGED <<max_tool_rounds, round_num, messages, dispatched, regVars,
                   srvVars, cliVars>>

LoopNext ==
    \/ \E sp \in SystemPrompts, b \in Budgets : CallLLM(sp, b)
    \/ \E r \in TextResponses \cup {RaisingResponse("rate limit exceeded")} :
          CallLLMNoTools(r)
    \/ \E r \in Responses : ToolRound(r)
    \/ \E r \in FinalResponses : FinalCall(r)

SpecLoop == LoopInit /\ [][LoopNext]_vars

(***************************************************************************)
(* Properties of the agentic loop (SpecLoop).                              *)
(***************************************************************************)
\* a tool call the loop can hand to the registry: a dict whose function is
\* not null and whose name is a string
WellFormed(tc) ==
    /\ tc.kind = "dict"
    /\ tc.function # "null"
    /\ tool_call_name(tc) # ListName

\* the completion call returned a response that requests tools
RequestsTools(c) ==
    /\ c.response.kind = "returns"
    /\ wants_tools(c.response)
    /\ \A i \in 1..Len(c.response.tool_calls) : WellFormed(c.response.tool_calls[i])

\* the completion call returned text and no tool request
ReturnsText(c) == c.response.kind = "returns" /\ ~wants_tools(c.response)

\* the tool calls requested by the first n completion calls
RECURSIVE CallsRequested(_, _)
CallsRequested(cs, n) ==
    IF n = 0 THEN 0
    ELSE CallsRequested(cs, n - 1) + Len(cs[n].response.tool_calls)

MessagesOf(role) == {i \in 1..Len(messages) : messages[i].role = role}

\* C7: when every response of the LLM requests a tool and the budget is B,
\* call_llm dispatches tools in exactly B rounds, each after a completion call
\* with the tools, then makes exactly one more completion call, without tools,
\* and returns its content as it is; the tool calls of that last response are
\* not dispatched.
C7_BudgetThenOneFinalCall ==
    (/\ pc = "done"
     /\ Len(completions) > 0
     /\ \A i \in 1..Len(completions) : RequestsTools(completions[i]))
    => /\ Len(completions) = max_tool_rounds + 1
       /\ \A i \in 1..max_tool_rounds : completions[i].enabled
       /\ ~completions[max_tool_rounds + 1].enabled
       /\ completions[max_tool_rounds + 1].tools = <<>>
       /\ round_num = max_tool_rounds
       /\ Cardinality(MessagesOf("assistant")) = max_tool_rounds
       /\ Len(dispatched) = CallsRequested(completions, max_tool_rounds)
       /\ Cardinality(MessagesOf("tool")) = Len(dispatched)
       /\ llm_result = completions[max_tool_rounds + 1].response.content

\* the budget of the bound was used up by tool requests, the response to the
\* final call requested a tool too, and its content came back
C7_Witness ==
    /\ pc = "done"
    /\ max_tool_rounds = MaxRounds
    /\ Len(completions) = MaxRounds + 1
    /\ \A i \in 1..Len(completions) : RequestsTools(completions[i])
    /\ llm_result = "final"
    /\ Len(dispatched) >= MaxRounds

\* C8: when the first N responses request one tool each and the next one is
\* text without a tool request, N below the budget, the registry is called N
\* times, N assistant messages and N tool messages are appended, and the text
\* is returned.
C8_RoundsThenText ==
    (/\ pc = "done"
     /\ Len(completions) > 0
     /\ Len(completions) - 1 < max_tool_rounds
     /\ \A i \in 1..(Len(completions) - 1) :
           /\ RequestsTools(completions[i])
           /\ Len(completions[i].response.tool_calls) = 1
     /\ ReturnsText(completions[Len(completions)])
     /\ completions[Len(completions)].enabled)
    => LET N == Len(completions) - 1
       IN  /\ Len(dispatched) = N
           /\ \A i \in 1..N :
                 dispatched[i].name
                    = tool_call_name(completions[i].response.tool_calls[1])
           /\ Cardinality(MessagesOf("assistant")) = N
           /\ Cardinality(MessagesOf("tool")) = N
           /\ Len(messages) = Cardinality(MessagesOf("system")) + 1 + 2 * N
           /\ llm_result = completions[N + 1].response.content

\* three rounds of one tool each under a larger budget, then "done"
C8_Witness ==
    /\ pc = "done"
    /\ Len(completions) = 4
    /\ max_tool_rounds > 3
    /\ \A i \in 1..3 :
          /\ RequestsTools(completions[i])
          /\ Len(completions[i].response.tool_calls) = 1
    /\ ReturnsText(completions[4])
    /\ llm_result = "done"
    /\ Len(dispatched) = 3

\* the correlation id of a requested call: its id, or the one the loop gives
\* it when it has none
CorrelationId(tc, rn) == tool_call_id(tc, rn)

\* C9: in a round, the requested calls go to the registry in the order they
\* are listed, and after the one assistant message of the round one tool
\* message per call is appended in that order, each with the id of its call.
C9_RoundOrderAndCorrelation ==
    [][(pc = "loop" /\ round_num' = round_num + 1)
        => LET response == completions'[Len(completions')].response
               n == Len(response.tool_calls)
               base == Len(messages)
           IN  /\ Len(messages') = base + 1 + n
               /\ SubSeq(messages', 1, base) = messages
               /\ messages'[base + 1].role = "assistant"
               /\ messages'[base + 1].tool_calls = response.tool_calls
               /\ Len(dispatched') = Len(dispatched) + n
               /\ \A i \in 1..n :
                     /\ dispatched'[Len(dispatched) + i].name
                           = tool_call_name(response.tool_calls[i])
                     /\ dispatched'[Len(dispatched) + i].call_id
                           = CorrelationId(response.tool_calls[i], round_num)
                     /\ messages'[base + 1 + i].role = "tool"
                     /\ messages'[base + 1 + i].tool_call_id
                           = CorrelationId(response.tool_calls[i], round_num)
    ]_vars

(***************************************************************************)
(* MCPClient (mcp/client.py) and the child process it spawns.  A child     *)
(* that answers runs MCPServer over the registry; its fields are the       *)
(* server variables.  A child can also fail the exchange.                  *)
(***************************************************************************)
\* How one request/response exchange with the child goes: the write fails,
\* the read fails, the read gives no line, a line that is no JSON, JSON that
\* is no object, an error response, the result {}, or the server's answer;
\* or the child writes nothing and stays alive, and readline() does not return.
TransportFailures == {"broken_pipe", "empty", "bad_json", "error_payload"}

Outcomes ==
    TransportFailures
    \cup {"read_error", "non_object", "empty_result", "answer", "no_answer"}

\* JSONRPCRequest(method, params, id).to_json(): params only when not None
RequestLine(method, params, id) == Message(JSONRPC_VERSION, method, params, id)

NoParams == Params("absent", Absent, AbsentArgs, Absent)

\* MCPInitializeParams().to_dict()
ClientInitializeParams == Params("dict", Absent, AbsentArgs, "clientInfo")

\* MCPToolCall.to_mcp_params: arguments only when they are not empty
to_mcp_params(call) ==
    Params("dict", call.name,
           IF call.arguments.kind = "dict" /\ KeysOf(call.arguments) # {}
           THEN call.arguments ELSE AbsentArgs,
           Absent)

\* a JSON object with none of the members the client reads
EmptyResult == [unread |-> Null]

\* result.get(key, default)
ResultGet(res, key, default) == IF key \in DOMAIN res THEN res[key] ELSE default

\* what _send_request raises
SendRaises(etype, error, failure, written) ==
    [raised |-> TRUE, etype |-> etype, error |-> error, failure |-> failure,
     written |-> written, answered |-> FALSE]

\* _send_request when the child's server answers: an error response raises,
\* else data.get("result", {}); srv is what handle_message gave
server_answer(srv) ==
    IF IsErrorEnvelope(srv.out)
    THEN [raised |-> TRUE, etype |-> "RuntimeError",
          error |-> "MCP server error [" \o ToString(srv.out.error.code)
                      \o "]: " \o srv.out.error.message,
          failure |-> "error_payload", written |-> TRUE,
          answered |-> TRUE, srv |-> srv]
    ELSE [raised |-> FALSE, failure |-> "none", written |-> TRUE,
          answered |-> TRUE, result |-> srv.out.result, srv |-> srv]

\* _send_request: the process check, the write, the read of one line, its
\* parse, the error check, and data.get("result", {}).  answered tells that
\* the server of the child handled the line.
send_request(ts, es, alive, line, outcome, init, info) ==
        CASE ~alive ->
               SendRaises("RuntimeError", "MCP server process is not running",
                          "not_running", FALSE)
          [] alive /\ outcome = "broken_pipe" ->
               SendRaises("RuntimeError", "Failed to send to MCP server",
                          outcome, FALSE)
          [] alive /\ outcome = "read_error" ->
               SendRaises("RuntimeError", "Failed to read from MCP server",
                          outcome, TRUE)
          [] alive /\ outcome = "empty" ->
               SendRaises("RuntimeError",
                          "MCP server closed connection (empty response)",
                          outcome, TRUE)
          [] alive /\ outcome = "bad_json" ->
               SendRaises("RuntimeError", "Invalid JSON from MCP server",
                          outcome, TRUE)
          [] alive /\ outcome = "non_object" ->
               SendRaises("AttributeError", "'list' object has no attribute 'get'",
                          outcome, TRUE)
          [] alive /\ outcome = "error_payload" ->
               SendRaises("RuntimeError", "MCP server error [?]: unknown error",
                          outcome, TRUE)
          [] alive /\ outcome = "no_answer" ->
               [raised |-> FALSE, failure |-> "no_answer", written |-> TRUE,
                answered |-> FALSE]
          [] alive /\ outcome = "empty_result" ->
               [raised |-> FALSE, failure |-> "none", written |-> TRUE,
                answered |-> FALSE, result |-> EmptyResult]
          [] OTHER -> server_answer(handle_message(ts, es, line, init, info))

\* call_tool, after the request, without the placeholder
parse_tool_result_without_placeholder(res, call) ==
    LET blocks == ResultGet(res, "content", <<>>)
        content == [i \in 1..Len(blocks) |-> TextContent(blocks[i].text)]
    IN  MCPToolResult(content, ResultGet(res, "isError", FALSE), call.name,
                      call.call_id)

\* call_tool, after the request: the content blocks as TextContent, the
\* placeholder when there is none, isError, and the name and id of the call
parse_tool_result(res, call) ==
    LET blocks == ResultGet(res, "content", <<>>)
        content == [i \in 1..Len(blocks) |-> TextContent(blocks[i].text)]
    IN  MCPToolResult(IF Len(content) = 0
                      THEN <<TextContent("(empty result)")>>
                      ELSE content,
                      ResultGet(res, "isError", FALSE), call.name, call.call_id)

\* call_tool, except RuntimeError: a result is made of the exception
server_error_result(error, call) ==
    MCPToolResult(<<TextContent("Server error: " \o error)>>, TRUE,
                  call.name, call.call_id)

\* list_tools, after the request: an MCPTool per item, with the defaults
parse_tools(res) ==
    LET items == ResultGet(res, "tools", <<>>)
    IN  [i \in 1..Len(items) |->
            MCPTool(items[i].name, ResultGet(items[i], "description", ""),
                    items[i].inputSchema)]

\* is_connected
is_connected ==
    /\ process # 0
    /\ children[process].alive
    /\ cli_initialized

\* _ensure_process would pass
process_running == process # 0 /\ children[process].alive

MaxChildren == 2

MaxRequests == 3

\* the calls an application makes through the client
ClientCalls ==
    {MCPToolCall(n, a, "c1") :
        n \in {"web_search", "echo", ""},
        a \in {EmptyArgs, [kind |-> "dict", text |-> Absent, query |-> "q"],
               [kind |-> "dict", text |-> "", query |-> Absent]}}

ClientInit ==
    /\ \E r \in ServerRegistries :
          /\ tools = r.tools
          /\ executors = r.executors
          /\ latest = r.latest
    /\ lastOp = [op |-> "none"]
    /\ ServerIdle
    /\ LoopIdle
    /\ ClientIdle

\* the exchange r has not returned: readline() is still blocked
Hangs(r) == r.failure = "no_answer"

\* an operation of the client that is blocked in readline()
Pending(op) == [op |-> op, raised |-> FALSE, failure |-> "no_answer"]

\* the caller is inside an operation that is blocked in readline()
Waiting == "failure" \in DOMAIN cliOp /\ cliOp.failure = "no_answer"

\* readline() gives '' once the child has exited
ClosedConnection ==
    SendRaises("RuntimeError", "MCP server closed connection (empty response)",
               "empty", TRUE)

\* what an operation of the client raised
OpRaised(op, r) ==
    [op |-> op, raised |-> TRUE, etype |-> r.etype, error |-> r.error,
     failure |-> r.failure]

NotConnected(op) ==
    [op |-> op, raised |-> TRUE, etype |-> "RuntimeError",
     error |-> "MCP client is not connected. Call connect() first.",
     failure |-> "not_connected"]

\* the server of the child after an exchange r in which line was written
Exchanged(r, line) ==
    IF r.answered
    THEN /\ initialized' = r.srv.initialized
         /\ client_info' = r.srv.client_info
         /\ handled_initialize' =
               (handled_initialize \/ InitializeAnswered(line, r.srv))
         /\ lastLine' = line
         /\ lastOut' = <<r.srv.out>>
         /\ lastOp' = IF Len(r.srv.calls) = 0 THEN [op |-> "none"] ELSE r.srv.calls[1]
    ELSE UNCHANGED <<initialized, client_info, handled_initialize, lastLine, lastOut, lastOp>>

\* the stdin of the connected child after the exchange: the line is in it
\* when the write went through; a write that hit a broken pipe leaves the
\* pipe broken
Written(r, line) ==
    IF r.written
    THEN children' = [children EXCEPT ![process].stdin =
                         Append(@, [method |-> line.method, id |-> line.id])]
    ELSE IF r.failure = "broken_pipe"
    THEN children' = [children EXCEPT ![process].broken = TRUE]
    ELSE UNCHANGED children

\* a write to a broken pipe fails again
PipeAllows(outcome) == children[process].broken => outcome = "broken_pipe"

\* connect(), subprocess.Popen raises: RuntimeError, nothing is assigned
ConnectSpawnFails ==
    /\ ~Waiting
    /\ cliOp' = [op |-> "connect", raised |-> TRUE, etype |-> "RuntimeError",
                 error |-> "Failed to start MCP server", failure |-> "spawn"]
    /\ UNCHANGED <<process, cli_initialized, server_info, children, next_id,
                   regVars, srvVars, loopVars, pipe>>

\* connect(): the child is spawned and assigned to _process, the initialize
\* request is exchanged, and after its result the initialized notification is
\* written (notified is FALSE when that write fails, which is only logged).
Connect(outcome, notified) ==
    /\ ~Waiting
    /\ Len(children) < MaxChildren
    /\ next_id <= MaxRequests
    /\ \E line \in {RequestLine("initialize", ClientInitializeParams,
                                 ToString(next_id))},
          note \in {[method |-> "notifications/initialized", id |-> Absent]} :
       \E r \in {send_request(tools, executors, TRUE, line, outcome, FALSE, Null)} :
           /\ (r.raised \/ Hangs(r)) => notified
           /\ children' = Append(children,
                 [alive |-> TRUE, attempted |-> FALSE, how |-> "",
                  broken |-> (r.failure = "broken_pipe" \/ ~notified),
                  stdin |-> (IF r.written
                             THEN <<[method |-> line.method, id |-> line.id]>>
                             ELSE <<>>)
                            \o (IF ~r.raised /\ ~Hangs(r) /\ notified
                                THEN <<note>> ELSE <<>>)])
           /\ process' = Len(children) + 1
           /\ next_id' = next_id + 1
           /\ running' = TRUE
           /\ initialized' = (r.answered /\ ~r.raised /\ notified)
           /\ client_info' = IF r.answered THEN r.srv.client_info ELSE Null
           /\ handled_initialize' = (r.answered /\ InitializeAnswered(line, r.srv))
           /\ lastLine' = IF r.answered THEN line ELSE OtherLine("blank")
           /\ lastOut' = IF r.answered THEN <<r.srv.out>> ELSE <<>>
           /\ lastOp' = [op |-> "none"]
           /\ IF r.raised \/ Hangs(r)
              THEN /\ cliOp' = IF r.raised THEN OpRaised("connect", r)
                                ELSE Pending("connect")
                   /\ UNCHANGED <<cli_initialized, server_info>>
              ELSE /\ cli_initialized' = TRUE
                   /\ server_info' = <<ResultGet(r.result, "serverInfo", EmptyResult)>>
                   /\ cliOp' = [op |-> "connect", raised |-> FALSE,
                                failure |-> "none", ret |-> r.result]
    /\ UNCHANGED <<tools, executors, latest, loopVars, pipe>>

\* disconnect(): stdin is closed and the child terminated and waited for, or
\* killed when that raises; the handle and the flag are cleared.  Without a
\* handle nothing is done.
Disconnect(clean) ==
    /\ ~Waiting
    /\ process = 0 => clean
    /\ IF process # 0
       THEN /\ children' = [children EXCEPT ![process] =
                              [@ EXCEPT !.alive = FALSE, !.attempted = TRUE,
                                        !.how = IF clean THEN "terminate" ELSE "kill"]]
            /\ process' = 0
            /\ cli_initialized' = FALSE
            /\ running' = FALSE
       ELSE UNCHANGED <<children, process, cli_initialized, running>>
    /\ cliOp' = [op |-> "disconnect", raised |-> FALSE, failure |-> "none"]
    /\ UNCHANGED <<server_info, next_id, regVars, initialized, client_info, handled_initialize,
                   lastLine, lastOut, loopVars, pipe>>

\* list_tools(): raises unless connected; the tools of the result
ClientListTools(outcome) ==
    /\ ~Waiting
    /\ next_id <= MaxRequests
    /\ IF ~is_connected
       THEN /\ outcome = "answer"
            /\ cliOp' = NotConnected("list_tools")
            /\ UNCHANGED <<children, next_id, initialized, client_info, handled_initialize, lastLine,
                           lastOut, lastOp>>
       ELSE \E line \in {RequestLine("tools/list", NoParams, ToString(next_id))} :
            /\ PipeAllows(outcome)
            /\ \E r \in {send_request(tools, executors, TRUE, line, outcome,
                                   initialized, client_info)} :
                /\ Exchanged(r, line)
                /\ Written(r, line)
                /\ next_id' = next_id + 1
                /\ cliOp' = IF r.raised
                            THEN OpRaised("list_tools", r)
                            ELSE IF Hangs(r)
                            THEN Pending("list_tools")
                            ELSE [op |-> "list_tools", raised |-> FALSE,
                                  failure |-> "none", ret |-> parse_tools(r.result)]
    /\ UNCHANGED <<process, cli_initialized, server_info, tools, executors, latest,
                   running, loopVars, pipe>>

\* call_tool(call): raises unless connected; a RuntimeError of the exchange
\* is caught and returned as a result; else the parsed result
ClientCallTool(call, outcome) ==
    /\ ~Waiting
    /\ next_id <= MaxRequests
    /\ IF ~is_connected
       THEN /\ outcome = "answer"
            /\ cliOp' = NotConnected("call_tool")
            /\ UNCHANGED <<children, next_id, initialized, client_info, handled_initialize, lastLine,
                           lastOut, lastOp>>
       ELSE \E line \in {RequestLine("tools/call", to_mcp_params(call),
                                      ToString(next_id))} :
            /\ PipeAllows(outcome)
            /\ \E r \in {send_request(tools, executors, TRUE, line, outcome,
                                   initialized, client_info)} :
                /\ Exchanged(r, line)
                /\ Written(r, line)
                /\ next_id' = next_id + 1
                /\ cliOp' =
                     IF r.raised /\ r.etype = "RuntimeError"
                     THEN [op |-> "call_tool", raised |-> FALSE,
                           failure |-> r.failure, call |-> call,
                           ret |-> server_error_result(r.error, call)]
                     ELSE IF r.raised
                     THEN OpRaised("call_tool", r)
                     ELSE IF Hangs(r)
                     THEN [op |-> "call_tool", raised |-> FALSE,
                           failure |-> "no_answer", call |-> call]
                     ELSE [op |-> "call_tool", raised |-> FALSE,
                           failure |-> "none", call |-> call,
                           reply |-> r.result,
                           ret |-> parse_tool_result(r.result, call)]
    /\ UNCHANGED <<process, cli_initialized, server_info, tools, executors, latest,
                   running, loopVars, pipe>>

\* ping(): True when the exchange gave a result, False on any exception;
\* only the process is checked, not the handshake
ClientPing(outcome) ==
    /\ ~Waiting
    /\ next_id <= MaxRequests
    /\ ~process_running => outcome = "answer"
    /\ process_running => PipeAllows(outcome)
    /\ \E line \in {RequestLine("ping", NoParams, ToString(next_id))} :
       \E r \in {send_request(tools, executors, process_running, line, outcome,
                              initialized, client_info)} :
           /\ Exchanged(r, line)
           /\ Written(r, line)
           /\ next_id' = IF process_running THEN next_id + 1 ELSE next_id
           /\ cliOp' = IF Hangs(r)
                        THEN Pending("ping")
                        ELSE [op |-> "ping", raised |-> FALSE,
                              failure |-> r.failure, ret |-> ~r.raised]
    /\ UNCHANGED <<process, cli_initialized, server_info, tools, executors, latest,
                   running, loopVars, pipe>>

\* a child process ends by itself: poll() is no longer None.  An operation
\* that is blocked in readline() on that child gets '' and ends as
\* _send_request raises: connect and list_tools raise, call_tool returns the
\* result it makes of the RuntimeError, ping returns False.
ChildExits(c) ==
    /\ children[c].alive
    /\ children' = [children EXCEPT ![c].alive = FALSE]
    /\ running' = IF c = process THEN FALSE ELSE running
    /\ cliOp' =
          IF ~(Waiting /\ c = process)
          THEN cliOp
          ELSE CASE cliOp.op = "call_tool" ->
                      [op |-> "call_tool", raised |-> FALSE, failure |-> "empty",
                       call |-> cliOp.call,
                       ret |-> server_error_result(ClosedConnection.error,
                                                   cliOp.call)]
                 [] cliOp.op = "ping" ->
                      [op |-> "ping", raised |-> FALSE, failure |-> "empty",
                       ret |-> FALSE]
                 [] OTHER -> OpRaised(cliOp.op, ClosedConnection)
    /\ UNCHANGED <<process, cli_initialized, server_info, next_id, regVars,
                   initialized, client_info, handled_initialize, lastLine, lastOut, loopVars, pipe>>

\* the steps that the caller of the client takes
ClientStep ==
    \/ ConnectSpawnFails
    \/ \E o \in Outcomes, n \in BOOLEAN : Connect(o, n)
    \/ \E clean \in BOOLEAN : Disconnect(clean)
    \/ \E o \in Outcomes : ClientListTools(o)
    \/ \E c \in ClientCalls, o \in Outcomes : ClientCallTool(c, o)
    \/ \E o \in Outcomes : ClientPing(o)

ClientNext ==
    \/ ClientStep
    \/ \E c \in 1..Len(children) : ChildExits(c)

SpecClient == ClientInit /\ [][ClientNext]_vars

(***************************************************************************)
(* Properties of the client (SpecClient).                                  *)
(***************************************************************************)
\* C10: when the exchange of call_tool or list_tools fails in transport (the
\* write hits a broken pipe, the response line is empty or no JSON, or the
\* response is an error payload), the operation raises to its caller and
\* returns no ToolResult.
C10_TransportFailureRaises ==
    (/\ cliOp.op \in {"call_tool", "list_tools"}
     /\ cliOp.failure \in TransportFailures)
    => /\ cliOp.raised
       /\ "ret" \notin DOMAIN cliOp

\* C11: every exit path ends the child that connect() spawned: after a
\* disconnect() of a client that holds a child (the body of __exit__), and
\* after a connect() (the body of __enter__) whose handshake failed once the
\* child was spawned, that child has had a termination attempt, the client
\* holds no process handle and is not connected.
C11_EveryExitPathTerminates ==
    [][/\ (cliOp'.op = "disconnect" /\ process # 0)
          => /\ children'[process].attempted
             /\ process' = 0
             /\ ~cli_initialized'
       /\ (/\ cliOp'.op = "connect"
           /\ cliOp'.raised
           /\ Len(children') > Len(children))
          => /\ children'[Len(children')].attempted
             /\ process' = 0
             /\ ~cli_initialized']_vars

\* C12: of the lines written to a child, the first is the initialize request
\* and the second is the initialized notification, which is written once;
\* ping, tools/list and tools/call lines come only after these two.
C12_HandshakeBeforeTraffic ==
    \A c \in 1..Len(children) :
        \A i \in 1..Len(children[c].stdin) :
            /\ (i = 1) = (children[c].stdin[i].method = "initialize")
            /\ (i = 2) = (children[c].stdin[i].method = "notifications/initialized")

\* C13: handle_message, given a line that is no JSON, returns the PARSE_ERROR
\* (-32700) envelope and does not raise; given a well-formed message without
\* an id it returns no output, and does not raise either.
C13_ParseErrorAndSilentNotification ==
    [][running =>
          /\ lastLine'.kind = "garbage" =>
                /\ running'
                /\ Len(lastOut') = 1
                /\ IsErrorEnvelope(lastOut'[1])
                /\ lastOut'[1].error.code = PARSE_ERROR
          /\ IsNotification(lastLine') =>
                /\ running'
                /\ lastOut' = <<>>]_vars

\* a tools/call request whose params are an object without a "name" member
LacksName(line) ==
    /\ line.kind = "object"
    /\ line.jsonrpc = JSONRPC_VERSION
    /\ line.method = "tools/call"
    /\ line.id \in Ids
    /\ line.params.kind = "dict"
    /\ line.params.name = Absent

\* an error envelope with the given code and the request's id
IsErrorWith(r, code, line) ==
    /\ IsErrorEnvelope(r)
    /\ ~IsSuccessEnvelope(r)
    /\ r.error.code = code
    /\ r.id = line.id

\* a success response with the request's id whose result has isError true
IsErrorResult(r, line) ==
    /\ IsSuccessEnvelope(r)
    /\ ~IsErrorEnvelope(r)
    /\ r.id = line.id
    /\ "isError" \in DOMAIN r.result
    /\ r.result.isError = TRUE

\* C14: a tools/call request without a name is answered with an
\* INVALID_PARAMS (-32602) error envelope and call_tool of the registry is not
\* invoked; a tools/call request that names a tool that is not registered is
\* answered with a success response whose result has isError true, after
\* call_tool was invoked.  Both hold for the server and for the registry's own
\* dispatch.
C14_MissingNameIsNotUnknownTool ==
    /\ LacksName(lastLine) =>
          /\ running =>
                /\ Len(lastOut) = 1
                /\ IsErrorWith(lastOut[1], INVALID_PARAMS, lastLine)
                /\ lastOp.op # "call_tool"
          /\ lastOp.op = "handle_jsonrpc" =>
                /\ ~lastOp.out.raised
                /\ IsErrorWith(lastOp.out.out, INVALID_PARAMS, lastLine)
    /\ (NamesTool(lastLine) /\ ~DictHas(tools, lastLine.params.name)) =>
          /\ running =>
                /\ Len(lastOut) = 1
                /\ IsErrorResult(lastOut[1], lastLine)
                /\ lastOp.op \in {"call_tool", "handle_jsonrpc"}
          /\ lastOp.op = "handle_jsonrpc" =>
                /\ ~lastOp.out.raised
                /\ IsErrorResult(lastOp.out.out, lastLine)

\* a request without a name was answered with INVALID_PARAMS
C14_Witness ==
    /\ LacksName(lastLine)
    /\ running
    /\ Len(lastOut) = 1
    /\ IsErrorWith(lastOut[1], INVALID_PARAMS, lastLine)
    /\ lastOp.op = "none"

\* a well-formed request whose handler fails: params that are null or an
\* array where the handler calls .get on them, a null clientInfo, or a tool
\* name that cannot be a dictionary key
HandlerFails(line) ==
    /\ line.kind = "object"
    /\ line.jsonrpc = JSONRPC_VERSION
    /\ line.id \in Ids
    /\ \/ /\ line.method \in {"initialize", "tools/list", "tools/call"}
          /\ line.params.kind \in {"null", "list"}
       \/ /\ line.method = "initialize"
          /\ line.params.kind = "dict"
          /\ line.params.clientInfo = Null
       \/ /\ line.method = "tools/call"
          /\ line.params.kind = "dict"
          /\ line.params.name = ListName

\* C15: when the handler of a well-formed request fails, the server answers
\* that request with exactly one INTERNAL_ERROR (-32603) envelope carrying
\* the request's id, and its run loop goes on reading.
C15_HandlerFailureIsInternalError ==
    [][(running /\ HandlerFails(lastLine')) =>
          /\ running'
          /\ Len(lastOut') = 1
          /\ IsErrorWith(lastOut'[1], INTERNAL_ERROR, lastLine')]_vars

\* a request with null params was answered with INTERNAL_ERROR and the
\* server still runs
C15_Witness ==
    /\ HandlerFails(lastLine)
    /\ lastLine.params.kind = "null"
    /\ running
    /\ Len(lastOut) = 1
    /\ IsErrorWith(lastOut[1], INTERNAL_ERROR, lastLine)

\* the content blocks of the reply that _send_request gave to call_tool
ReplyBlocks == ResultGet(cliOp.reply, "content", <<>>)

C16_EmptyOutputReached ==
    /\ lastOp.op = "call_tool"
    /\ ~lastOp.out.raised
    /\ ~lastOp.out.ret.is_error
    /\ lastOp.out.ret.content = <<TextContent("")>>

\* C17: connect() against a child that closes its pipe without answering the
\* initialize request raises a RuntimeError; and a connect() that waits for
\* the answer of a child that stays alive and silent is ended by the client
\* itself (its deadline): it never depends on the child alone to return.
C17_ConnectReturnsWithinDeadline ==
    /\ (cliOp.op = "connect" /\ "failure" \in DOMAIN cliOp
        /\ cliOp.failure = "empty") =>
          /\ cliOp.raised
          /\ cliOp.etype = "RuntimeError"
    /\ (cliOp.op = "connect" /\ Waiting /\ process_running) => ENABLED ClientStep

\* the names in what list_tools returns for the catalog ts
NamesListed(ts) == {list_tools(ts).tools[i].name : i \in 1..Len(list_tools(ts).tools)}

\* the entries of a dict other than the one of key k, in their order
OtherEntries(d, k) == LET Other(e) == e.key # k IN SelectSeq(d, Other)

\* C18: unregister_tool(name) returns true exactly when the name was
\* registered; after it the name is not in what list_tools returns, call_tool
\* on it returns the not-found error result without invoking an executor,
\* another unregister_tool(name) would return false, and every other entry of
\* the catalog and of the executors is as it was.
C18_UnregisterRemovesOnlyThatEntry ==
    [][lastOp'.op = "unregister_tool" =>
          LET name == lastOp'.name
              after == call_tool(executors', MCPToolCall(name, EmptyArgs, Null))
          IN  /\ lastOp'.ret = (latest[name].st = "registered")
              /\ name \notin NamesListed(tools')
              /\ ~after.raised
              /\ after.invoked = <<>>
              /\ after.ret.is_error = TRUE
              /\ after.ret.content = <<TextContent("Tool '" \o name \o "' not found")>>
              /\ unregister_existed(tools', name) = FALSE
              /\ OtherEntries(tools', name) = OtherEntries(tools, name)
              /\ OtherEntries(executors', name) = OtherEntries(executors, name)]_vars

\* a registered echo was unregistered, and the built-ins are still listed
C18_Witness ==
    /\ lastOp.op = "unregister_tool"
    /\ lastOp.name = "echo"
    /\ lastOp.ret = TRUE
    /\ NamesListed(tools) = BuiltinNames

\* a tools/call request for echo with the arguments {"text": "hi"}, to a
\* server whose echo tool returns its text
EchoesHi(line, es) ==
    /\ NamesTool(line)
    /\ line.params.name = "echo"
    /\ line.params.arguments = [kind |-> "dict", text |-> "hi", query |-> Absent]
    /\ DictHas(es, "echo")
    /\ DictGet(es, "echo") = "echo"

\* C19: the result payload of a tools/call response has the key isError
\* exactly when the tool result is an error, and then with the value true;
\* the payload for echo called with the text "hi" is exactly
\* {"content": [{"type": "text", "text": "hi"}]}, without the key.
C19_IsErrorKeyOnlyOnError ==
    /\ (NamesTool(lastLine) /\ running /\ lastOp.op = "call_tool") =>
          /\ Len(lastOut) = 1
          /\ IsSuccessEnvelope(lastOut[1])
          /\ ("isError" \in DOMAIN lastOut[1].result) = lastOp.out.ret.is_error
          /\ "isError" \in DOMAIN lastOut[1].result =>
                lastOut[1].result.isError = TRUE
          /\ lastOut[1].result.content = lastOp.out.ret.content
    /\ (EchoesHi(lastLine, executors) /\ running) =>
          /\ Len(lastOut) = 1
          /\ IsSuccessEnvelope(lastOut[1])
          /\ lastOut[1].result = [content |-> <<[type |-> "text", text |-> "hi"]>>]

\* echo was called with "hi" and the payload has the one text block
C19_Witness ==
    /\ EchoesHi(lastLine, executors)
    /\ running
    /\ lastOp.op = "call_tool"
    /\ Len(lastOut) = 1
    /\ DOMAIN lastOut[1].result = {"content"}
    /\ lastOut[1].result.content[1].text = "hi"

\* the session state of the server
SessionState ==
    IF initialized THEN "Ready"
    ELSE IF handled_initialize THEN "Initialized"
    ELSE "NotInitialized"

\* the initialized notification
IsInitializedNotification(line) ==
    /\ IsNotification(line)
    /\ line.method = "notifications/initialized"

\* C20: the session state of the server goes from NotInitialized to
\* Initialized to Ready: it becomes Ready only from Initialized, when the
\* initialized notification arrives; it becomes Initialized only when an
\* initialize request is handled; and once Ready it stays Ready.
C20_SessionStateMachine ==
    [][/\ (SessionState # "Ready" /\ SessionState' = "Ready") =>
             /\ SessionState = "Initialized"
             /\ IsInitializedNotification(lastLine')
       /\ (SessionState = "NotInitialized" /\ SessionState' = "Initialized") =>
             /\ lastLine'.method = "initialize"
             /\ IsRequest(lastLine')
       /\ SessionState = "Initialized" => SessionState' # "NotInitialized"
       /\ SessionState = "Ready" => SessionState' = "Ready"]_vars

(***************************************************************************)
(* Further properties of the agentic loop (SpecLoop).                      *)
(***************************************************************************)
\* the completion calls made with the tools
WithTools == {i \in 1..Len(completions) : completions[i].enabled}

\* C21: whatever the LLM answers and whatever the budget B, call_llm makes at
\* most B completion calls with the tools and at most B + 1 in all, and
\* dispatches tools in at most B rounds; while it is in its loop each pass
\* either ends it or uses up one round of the budget, and a next pass or the
\* final call is always possible, so it ends after at most B + 1 calls.
C21_LoopEndsWithinBudget ==
    /\ Cardinality(WithTools) <= max_tool_rounds
    /\ Len(completions) <= max_tool_rounds + 1
    /\ Cardinality(MessagesOf("assistant")) <= max_tool_rounds
    /\ round_num <= max_tool_rounds
    /\ pc = "loop" =>
          /\ Len(completions) = round_num
          /\ ENABLED ((\E r \in Responses : ToolRound(r))
                        \/ (\E r \in FinalResponses : FinalCall(r)))
    /\ pc = "done" => llm_result # Absent

\* the whole budget of the bound went to tool rounds and the final call, made
\* without tools, raised
C21_Witness ==
    /\ pc = "done"
    /\ max_tool_rounds = MaxRounds
    /\ Cardinality(WithTools) = MaxRounds
    /\ Len(completions) = MaxRounds + 1
    /\ completions[MaxRounds + 1].response.kind = "raises"

\* the call the loop makes of the requested call tc in round rn
LoopCall(tc, rn) ==
    MCPToolCall(tool_call_name(tc), tool_call_arguments(tc), tool_call_id(tc, rn))

\* the registry es has no executor for the call, or the executor raises on
\* its arguments
CallFails(es, call) ==
    \/ ~DictHas(es, call.name)
    \/ Invoke(DictGet(es, call.name), call.arguments).kind # "return"

\* C22: in a round whose requested calls can all be handed to the registry,
\* a call that fails (unknown tool, argument mismatch, executor exception)
\* gets a tool message whose text is "Error: " followed by the text of the
\* registry's result, every call of the round is still executed and the loop
\* goes on to its next round; and each completion call is given the whole
\* conversation, that message included.
C22_ToolFailureIsFedBack ==
    [][/\ (/\ pc = "loop"
           /\ Len(completions') = Len(completions) + 1
           /\ RequestsTools(completions'[Len(completions')])
           /\ completions'[Len(completions')].enabled)
          => LET tcs == completions'[Len(completions')].response.tool_calls
                 base == Len(messages)
             IN  /\ pc' = "loop"
                 /\ round_num' = round_num + 1
                 /\ Len(messages') = base + 1 + Len(tcs)
                 /\ Len(dispatched') = Len(dispatched) + Len(tcs)
                 /\ \A i \in 1..Len(tcs) :
                       LET call == LoopCall(tcs[i], round_num)
                       IN  /\ dispatched'[Len(dispatched) + i] = call
                           /\ messages'[base + 1 + i].role = "tool"
                           /\ CallFails(executors, call) =>
                                 messages'[base + 1 + i].content
                                    = "Error: "
                                       \o get_text(call_tool(executors, call).ret)
       /\ (pc = "loop" /\ Len(completions') = Len(completions) + 1)
          => sent' = messages]_vars

\* an unknown tool was answered with an error message, the call after it in
\* the round was executed too, and a later completion call was given both
C22_Witness ==
    /\ pc = "done"
    /\ llm_result = "done"
    /\ \E i \in 1..(Len(sent) - 1) :
          /\ sent[i].role = "tool"
          /\ sent[i].content = "Error: Tool 'missing' not found"
          /\ sent[i + 1].role = "tool"
          /\ sent[i + 1].content = "Error: Tool 'unknown' not found"

(***************************************************************************)
(* The client and the MCPServer in its child, line by line: the write and  *)
(* the read of _send_request are steps of their own, and the server takes  *)
(* its lines from the pipe one at a time.                                   *)
(***************************************************************************)
\* the requests an application makes of a connected client
AppRequests ==
    {<<"tools/list", NoParams>>, <<"ping", NoParams>>}
    \cup {<<"tools/call", to_mcp_params(c)>> : c \in ClientCalls}

PipeInit ==
    /\ \E r \in ServerRegistries :
          /\ tools = r.tools
          /\ executors = r.executors
          /\ latest = r.latest
    /\ lastOp = [op |-> "none"]
    /\ ServerIdle
    /\ LoopIdle
    /\ ClientIdle

\* connect(), subprocess.Popen: a new child with new pipes is assigned to
\* _process, and MCPServer is constructed in it
PipeSpawn ==
    /\ pipe.phase \in {"closed", "ready"}
    /\ pipe.awaiting = Absent
    /\ Len(children) < MaxChildren
    /\ next_id <= MaxRequests
    /\ children' = Append(children, [alive |-> TRUE, attempted |-> FALSE,
                                     how |-> "", broken |-> FALSE, stdin |-> <<>>])
    /\ process' = Len(children) + 1
    /\ pipe' = [pipe EXCEPT !.phase = "spawned", !.stdin = <<>>, !.stdout = <<>>]
    /\ cliOp' = [op |-> "connect"]
    /\ initialized' = FALSE
    /\ client_info' = Null
    /\ running' = TRUE
    /\ lastLine' = OtherLine("blank")
    /\ lastOut' = <<>>
    /\ UNCHANGED <<cli_initialized, server_info, next_id, handled_initialize,
                   regVars, loopVars>>

\* _send_request up to the flush: the request is written with a fresh id
PipeWrite(method, params) ==
    /\ pipe.awaiting = Absent
    /\ next_id <= MaxRequests
    /\ \/ /\ pipe.phase = "spawned"
          /\ method = "initialize"
          /\ params = ClientInitializeParams
       \/ /\ pipe.phase = "ready"
          /\ <<method, params>> \in AppRequests
    /\ \E line \in {RequestLine(method, params, ToString(next_id))} :
          /\ pipe' = [pipe EXCEPT !.awaiting = line.id,
                                  !.stdin = Append(@, line),
                                  !.written = Append(@, line.id),
                                  !.phase = IF method = "initialize"
                                            THEN "initialize" ELSE @]
          /\ children' = [children EXCEPT ![process].stdin =
                             Append(@, [method |-> method, id |-> line.id])]
    /\ next_id' = next_id + 1
    /\ cliOp' = [op |-> method]
    /\ UNCHANGED <<process, cli_initialized, server_info, regVars, srvVars,
                   loopVars>>

\* one turn of the loop of MCPServer.run in the child: the next line of its
\* stdin goes to handle_message and what it returns is written to stdout
PipeServe ==
    /\ running
    /\ pipe.stdin # <<>>
    /\ \E line \in {Head(pipe.stdin)} :
       \E r \in {handle_message(tools, executors, line, initialized, client_info)} :
           /\ lastLine' = line
           /\ initialized' = r.initialized
           /\ client_info' = r.client_info
           /\ handled_initialize' = (handled_initialize \/ InitializeAnswered(line, r))
           /\ running' = ~r.raised
           /\ lastOut' = IF ~r.raised /\ r.responds THEN <<r.out>> ELSE <<>>
           /\ lastOp' = IF Len(r.calls) = 0 THEN [op |-> "none"] ELSE r.calls[1]
           /\ pipe' = [pipe EXCEPT !.stdin = Tail(@),
                                   !.stdout = IF ~r.raised /\ r.responds
                                              THEN Append(@, r.out) ELSE @]
    /\ UNCHANGED <<tools, executors, latest, process, cli_initialized, server_info,
                   children, next_id, cliOp, loopVars>>

\* _send_request from readline() on: the next line of the child's stdout is
\* taken as the response, whatever its id; an error response raises.  After
\* the result of initialize, connect() keeps serverInfo.
PipeRead ==
    /\ pipe.awaiting # Absent
    /\ pipe.stdout # <<>>
    /\ \E data \in {Head(pipe.stdout)} :
          /\ pipe' = [pipe EXCEPT
                        !.stdout = Tail(@),
                        !.awaiting = Absent,
                        !.consumed = Append(@, [want |-> pipe.awaiting,
                                                got |-> data.id]),
                        !.phase = IF pipe.phase # "initialize" THEN @
                                  ELSE IF IsErrorEnvelope(data) THEN "failed"
                                  ELSE "handshaken"]
          /\ cliOp' = [op |-> cliOp.op, raised |-> IsErrorEnvelope(data)]
          /\ server_info' =
                IF pipe.phase = "initialize" /\ ~IsErrorEnvelope(data)
                THEN <<ResultGet(data.result, "serverInfo", EmptyResult)>>
                ELSE server_info
    /\ UNCHANGED <<process, cli_initialized, children, next_id, regVars, srvVars,
                   loopVars>>

\* connect() after the result of initialize: _send_notification writes the
\* initialized notification and does not read; _initialized is set
PipeNotify ==
    /\ pipe.phase = "handshaken"
    /\ pipe' = [pipe EXCEPT !.phase = "ready",
                            !.stdin = Append(@, RequestLine("notifications/initialized",
                                                            NoParams, Absent))]
    /\ children' = [children EXCEPT ![process].stdin =
                       Append(@, [method |-> "notifications/initialized",
                                  id |-> Absent])]
    /\ cli_initialized' = TRUE
    /\ cliOp' = [op |-> "connect", raised |-> FALSE]
    /\ UNCHANGED <<process, server_info, next_id, regVars, srvVars, loopVars>>

\* disconnect() of a connected client: the child's stdin is closed and the
\* child terminated; what is in the pipes is lost with them
PipeDisconnect ==
    /\ pipe.phase = "ready"
    /\ pipe.awaiting = Absent
    /\ children' = [children EXCEPT ![process] =
                      [@ EXCEPT !.alive = FALSE, !.attempted = TRUE,
                                !.how = "terminate"]]
    /\ process' = 0
    /\ cli_initialized' = FALSE
    /\ running' = FALSE
    /\ pipe' = [pipe EXCEPT !.phase = "closed", !.stdin = <<>>, !.stdout = <<>>]
    /\ cliOp' = [op |-> "disconnect", raised |-> FALSE]
    /\ UNCHANGED <<server_info, next_id, regVars, initialized, client_info,
                   handled_initialize, lastLine, lastOut, loopVars>>

PipeNext ==
    \/ PipeSpawn
    \/ \E method \in {"initialize", "tools/list", "tools/call", "ping"},
          params \in {ClientInitializeParams, NoParams}
                       \cup {to_mcp_params(c) : c \in ClientCalls} :
          PipeWrite(method, params)
    \/ PipeServe
    \/ PipeRead
    \/ PipeNotify
    \/ PipeDisconnect

SpecPipe == PipeInit /\ [][PipeNext]_vars

\* the requests the child has not read yet
UnreadRequests == {i \in 1..Len(pipe.stdin) : Get(pipe.stdin[i].id) # Null}

\* C23: between one MCPClient and the MCPServer in its child at most one
\* request is outstanding at any time, and every response line the client
\* consumes carries the id of the request it has just written: the i-th
\* response consumed answers the i-th request written, whatever the order in
\* which the server gets to the requests and the notification.
C23_OneOutstandingAnsweredInOrder ==
    /\ Len(pipe.written) - Len(pipe.consumed) \in {0, 1}
    /\ (pipe.awaiting = Absent) <=> (Len(pipe.written) = Len(pipe.consumed))
    /\ Cardinality(UnreadRequests) + Len(pipe.stdout) <= 1
    /\ pipe.awaiting = Absent => (UnreadRequests = {} /\ pipe.stdout = <<>>)
    /\ pipe.stdout # <<>> => pipe.stdout[1].id = pipe.awaiting
    /\ \A i \in 1..Len(pipe.consumed) :
          /\ pipe.consumed[i].got = pipe.consumed[i].want
          /\ pipe.consumed[i].want = pipe.written[i]

C23_Witness ==
    /\ pipe.phase = "ready"
    /\ Len(pipe.consumed) = MaxRequests
    /\ cliOp.op = "tools/call"
    /\ \E i \in 1..Len(children[process].stdin) :
          children[process].stdin[i].method = "notifications/initialized"

(***************************************************************************)
(* Further properties of the client (SpecClient).                          *)
(***************************************************************************)
\* the server of the child answered the request that was written last
LastRequestAnswered ==
    /\ lastLine.kind = "object"
    /\ lastLine.id = ToString(next_id - 1)

\* the texts of the content blocks of a result
TextsOf(r) == [i \in 1..Len(r.content) |-> r.content[i].text]

\* C24: for a connected client whose server serves the registry,
\* client.call_tool(c) returns a result with the same is_error, the same text
\* content, the same tool_name and the same call_id as the registry's own
\* call_tool(c), for every call c.
C24_ClientCallEqualsRegistryCall ==
    (/\ cliOp.op = "call_tool"
     /\ "ret" \in DOMAIN cliOp
     /\ LastRequestAnswered)
    => \E local \in {call_tool(executors, cliOp.call)} :
          /\ ~local.raised
          /\ cliOp.ret.is_error = local.ret.is_error
          /\ TextsOf(cliOp.ret) = TextsOf(local.ret)
          /\ cliOp.ret.tool_name = local.ret.tool_name
          /\ cliOp.ret.call_id = local.ret.call_id

(***************************************************************************)
(* Further properties of the server (SpecServer).                          *)
(***************************************************************************)
IsToolsRequest(line) ==
    /\ IsRequest(line)
    /\ line.method \in {"tools/list", "tools/call"}

\* the values _client_info takes: None, the {} of the default, a clientInfo
ClientInfos == {Null, "{}", "clientInfo"}

\* the lines run writes for what handle_message gave
WrittenFor(r) == IF ~r.raised /\ r.responds THEN <<r.out>> ELSE <<>>

\* C25: what the server answers to a tools/list or tools/call request does
\* not depend on the handshake: a server over the same registry in any other
\* handshake state (_initialized set or not, any _client_info) writes the
\* same response to the same request.
C25_ToolsAnswerIgnoresHandshake ==
    [][ (running /\ IsToolsRequest(lastLine'))
        => \A init \in BOOLEAN, info \in ClientInfos :
              WrittenFor(handle_message(tools, executors, lastLine', init, info))
                 = lastOut'
      ]_vars

C25_Witness ==
    /\ running
    /\ initialized
    /\ handled_initialize
    /\ client_info = "clientInfo"
    /\ IsToolsRequest(lastLine)
    /\ lastLine.method = "tools/call"
    /\ Len(lastOut) = 1
    /\ IsSuccessEnvelope(lastOut[1])
    /\ lastOut = WrittenFor(handle_message(tools, executors, lastLine, FALSE, Null))

IsPrefix(s, t) == Len(s) <= Len(t) /\ SubSeq(t, 1, Len(s)) = s

\* the messages from position from + 1 on are one assistant message and then
\* n tool messages, and there are no more
ExtendedByRound(ms, from, n) ==
    /\ Len(ms) = from + 1 + n
    /\ ms[from + 1].role = "assistant"
    /\ \A i \in 1..n : ms[from + 1 + i].role = "tool"

\* C26: the conversation of the agentic loop is append-only.  Every step
\* leaves the messages it had as a prefix of the messages it has; every
\* completion call of the loop is passed the whole conversation, of which the
\* conversation passed to the call before is a prefix, longer by exactly the
\* assistant message and one tool message per call that the response before
\* requested; and a round that dispatches its calls extends the conversation
\* by exactly those messages.
C26_ConversationIsAppendOnly ==
    [][ /\ IsPrefix(messages, messages')
        /\ (pc = "loop" /\ Len(completions') = Len(completions) + 1)
           => /\ sent' = messages
              /\ IsPrefix(sent, sent')
              /\ Len(completions) > 0
                 => ExtendedByRound(sent', Len(sent),
                       Len(completions[Len(completions)].response.tool_calls))
        /\ (pc = "loop" /\ round_num' = round_num + 1)
           => ExtendedByRound(messages', Len(messages),
                 Len(completions'[Len(completions')].response.tool_calls))
      ]_vars

C26_Witness ==
    /\ pc = "done"
    /\ llm_result = "done"
    /\ Len(completions) = 3
    /\ \E i \in 1..Len(sent) :
          /\ i + 4 = Len(sent)
          /\ sent[i].role = "assistant"
          /\ sent[i + 1].role = "tool"
          /\ sent[i + 2].role = "tool"
          /\ sent[i + 3].role = "assistant"
          /\ sent[i + 4].role = "tool"

(***************************************************************************)
(* Further properties of the registry (SpecRegistry).                      *)
(***************************************************************************)
\* whether call_tool finds an executor under the name
Callable(name) ==
    \E call \in {MCPToolCall(name, EmptyArgs, "c1")} :
        call_tool(executors, call) # tool_not_found(call)

\* C27: after any sequence of register_tool, unregister_tool and call_tool,
\* the names with a tool definition are the names with an executor: each name
\* that list_tools returns is found by call_tool, and each name that call_tool
\* finds is returned by list_tools.
C27_ListedIffCallable ==
    /\ {tools[i].key : i \in 1..Len(tools)}
          = {executors[i].key : i \in 1..Len(executors)}
    /\ \A n \in AllNames :
          (\E i \in 1..Len(ListedNames) : ListedNames[i] = n) <=> Callable(n)

C27_Witness ==
    /\ lastOp.op = "call_tool"
    /\ lastOp.call.name = "web_search"
    /\ latest["web_search"].st = "unregistered"
    /\ lastOp.out = tool_not_found(lastOp.call)
    /\ latest["echo"].st = "registered"
    /\ Callable("echo")
    /\ ~Callable("web_search")

\* C28: handle_message returns normally for every line, a
\* notifications/cancelled notification with null or non-object params
\* included: no line the running server reads makes it raise, and run goes on
\* to the next line.
C28_NoLineEndsRun ==
    [][running =>
          /\ running'
          /\ lastLine'.kind # "blank" =>
                ~handle_message(tools, executors, lastLine', initialized,
                                client_info).raised]_vars

\* C29: after any sequence of connect() and disconnect() on one client, every
\* child it spawned that has not received a termination attempt is the child
\* its _process refers to; no earlier child is left running without a handle.
C29_UnattemptedChildIsReferenced ==
    \A c \in 1..Len(children) :
        /\ ~children[c].attempted => c = process
        /\ (children[c].alive /\ ~children[c].attempted) => c = process

\* the entries of a tool request that come before its first malformed one
\* (all of them when none is malformed)
BeforeMalformed(tcs) ==
    {i \in 1..Len(tcs) : \A j \in 1..i : WellFormed(tcs[j])}

\* the completion call made in this step, when one was made
LatestCompletion == completions'[Len(completions')]

====
